---- MODULE Spec2Model ----
(***************************************************************************)
(* Model of the DXF-Import geometry fidelity resolver and tessellation     *)
(* engine: importer.get_hifi_geometry and geometry_to_line.lines_to_points,*)
(* arc_to_lines, ellipse_to_arcs and convert_to.                           *)
(*                                                                         *)
(* Numbers.  Python floats are modelled as exact rationals [n, d] in       *)
(* lowest terms.  math.cos / math.sin are exact at the multiples of 90     *)
(* degrees and math.sqrt is exact on squares of rationals; the inputs the  *)
(* actions draw are those on which the source evaluates only such values   *)
(* (Representable...), so that every number of the model is the number     *)
(* the source computes, up to floating-point rounding.                     *)
(*                                                                         *)
(* Outcomes.  A call ends in Return(v) (a value), ReturnNone (the function *)
(* falls off its end and Python returns None) or Raise(e) (an exception    *)
(* of class e propagates to the caller).                                   *)
(***************************************************************************)
EXTENDS Integers, Sequences, FiniteSets, TLC

VARIABLES pc, call, frame, stages, result, file, records

vars == <<pc, call, frame, stages, result, file, records>>

(***************************************************************************)
(* Bounds of the model.                                                    *)
(***************************************************************************)
MaxBatch == 2
MaxSeg == 4
MaxLen == 1
MaxEntities == 2

(***************************************************************************)
(* Exact rational arithmetic.                                              *)
(***************************************************************************)
Abs(i) == IF i < 0 THEN -i ELSE i

RECURSIVE GCD(_, _)
GCD(a, b) == IF b = 0 THEN a ELSE GCD(b, a % b)

Rat(n, d) ==
    LET g == GCD(Abs(n), Abs(d))
        s == IF d < 0 THEN -1 ELSE 1
    IN  [n |-> s * (n \div g), d |-> s * (d \div g)]

R(i) == [n |-> i, d |-> 1]

RAdd(a, b) == Rat(a.n * b.d + b.n * a.d, a.d * b.d)
RSub(a, b) == Rat(a.n * b.d - b.n * a.d, a.d * b.d)
RMul(a, b) == Rat(a.n * b.n, a.d * b.d)
RDiv(a, b) == Rat(a.n * b.d, a.d * b.n)
RNeg(a) == [n |-> -a.n, d |-> a.d]
(* an/ad < bn/bd for non-negative fractions, by their integer parts and    *)
(* then the reciprocals of their fractional parts (no products)            *)
RECURSIVE LtPos(_, _, _, _)
LtPos(an, ad, bn, bd) ==
    IF an \div ad # bn \div bd THEN an \div ad < bn \div bd
    ELSE IF an % ad = 0 THEN bn % bd # 0
    ELSE IF bn % bd = 0 THEN FALSE
    ELSE LtPos(bd, bn % bd, ad, an % ad)

RLt(a, b) ==
    IF a.n < 0 /\ b.n >= 0 THEN TRUE
    ELSE IF a.n >= 0 /\ b.n < 0 THEN FALSE
    ELSE IF a.n >= 0 THEN LtPos(a.n, a.d, b.n, b.d)
    ELSE LtPos(-b.n, b.d, -a.n, a.d)

RLe(a, b) == ~RLt(b, a)
RIsZero(a) == a.n = 0

(* int(x): truncation towards zero *)
RInt(a) == IF a.n >= 0 THEN a.n \div a.d ELSE -((-a.n) \div a.d)

(* A coordinate whose value is irrational is kept as the term              *)
(* a + b*cos(t) or a + b*sin(t), t in degrees and a, b rational.           *)
Trig(a, b, f, t) == [a |-> a, b |-> b, f |-> f, t |-> t]

IsRational(x) == "n" \in DOMAIN x

IsRationalPoint(p) == \A i \in 1..Len(p) : IsRational(p[i])

(***************************************************************************)
(* Outcomes of a call.                                                     *)
(***************************************************************************)
Return(v) == [tag |-> "return", val |-> v]
ReturnNone == [tag |-> "none"]
Raise(e) == [tag |-> "raise", exc |-> e]
NoResult == [tag |-> "pending"]

(* a stage whose numbers the model cannot represent exactly *)
Inexact == [tag |-> "inexact"]

(***************************************************************************)
(* Geometry kinds and records.  A record ('KIND:id', values) is            *)
(* [kind, id, values].                                                     *)
(***************************************************************************)
Kinds == {"POINT", "LINE", "ARC", "ELLIPSE", "SPLINE", "LWPOLYLINE"}

Rec(kind, id, values) == [kind |-> kind, id |-> id, values |-> values]

(***************************************************************************)
(* importer.get_hifi_geometry                                              *)
(***************************************************************************)
geometries == <<"POINT", "LINE", "ARC", "ELLIPSE", "SPLINE", "LWPOLYLINE">>

(* the empty list returned when no geometry is found *)
EmptyList == "[]"

(* geometries.index(geometry), 1-based; 0 when absent (ValueError) *)
IndexOf(geometry) ==
    IF \E i \in 1..Len(geometries) : geometries[i] = geometry
    THEN CHOOSE i \in 1..Len(geometries) : geometries[i] = geometry
    ELSE 0

(* for index in range(geometries.index(geometry)-1, -1, -1): first allowed *)
RECURSIVE ScanBelow(_, _)
ScanBelow(index, allowedtypes) ==
    IF index < 1 THEN EmptyList
    ELSE IF geometries[index] \in allowedtypes THEN geometries[index]
    ELSE ScanBelow(index - 1, allowedtypes)

(* the scan started at the kind itself instead of the kind below it *)
GenericScanInclusive(geometry, allowedtypes) ==
    IF IndexOf(geometry) = 0 THEN Raise("ValueError")
    ELSE Return(ScanBelow(IndexOf(geometry), allowedtypes))

GenericScan(geometry, allowedtypes) ==
    IF IndexOf(geometry) = 0 THEN Raise("ValueError")
    ELSE Return(ScanBelow(IndexOf(geometry) - 1, allowedtypes))

SplineCase(allowedtypes) ==
    IF "LINE" \in allowedtypes THEN Return("LINE")
    ELSE IF "POINT" \in allowedtypes THEN Return("POINT")
    ELSE GenericScan("SPLINE", allowedtypes)

LwpolylineCase(allowedtypes) ==
    IF "ARC" \in allowedtypes /\ "LINE" \in allowedtypes THEN Return("ARC")
    ELSE IF "ARC" \notin allowedtypes /\ "LINE" \in allowedtypes THEN Return("LINE")
    ELSE IF "POINT" \in allowedtypes THEN Return("POINT")
    ELSE GenericScan("LWPOLYLINE", allowedtypes)

get_hifi_geometry(geometry, allowedtypes) ==
    IF geometry = "SPLINE" THEN SplineCase(allowedtypes)
    ELSE IF geometry = "LWPOLYLINE" THEN LwpolylineCase(allowedtypes)
    ELSE GenericScan(geometry, allowedtypes)

(***************************************************************************)
(* geometry_to_line: unit tables.  Indices are Python's (0-based).  The    *)
(* factors beyond the range of the model's integers are written as         *)
(* products and are evaluated only for a unit the model draws.             *)
(***************************************************************************)
UNIT_TABLE ==
    <<"in", "ft", "mi", "mm", "cm", "m", "km", "ui", "mil", "yd", "a", "nm",
      "um", "dm", "dam", "hm", "gm", "au", "ly", "pc", "usft", "usin", "usyd",
      "usmi">>

CONVERSION_FACTORS(i) ==
    CASE i = 0 -> R(1)
      [] i = 1 -> Rat(39370079, 100)
      [] i = 2 -> Rat(32808399, 10)
      [] i = 3 -> R(62137119 * 1000)
      [] i = 4 -> R(1000)
      [] i = 5 -> R(10000)
      [] i = 6 -> R(1000000)
      [] i = 7 -> R(1000000000)
      [] i = 8 -> Rat(39370078 * 100000000 + 74015748, 100000000 * 1000000)
      [] i = 9 -> Rat(39370078 * 100000000 + 74015748, 100000 * 1000000)
      [] i = 10 -> R(1093613)
      [] i = 11 -> R(10000)
      [] i = 12 -> R(1000)
      [] i = 13 -> R(1)
      [] i = 14 -> R(100000)
      [] i = 15 -> R(10000000)
      [] i = 16 -> R(100000000)
      [] i = 17 -> R(1000000000 * 1000000)
      [] i = 18 -> R((6684587 * 10000000 + 1226706) * 100000)
      [] i = 19 -> R((1057000 * 10000000 + 8340246) * 1000000000)
      [] i = 20 -> R((3240779 * 10000000 + 2700054) * 1000000000 * 10)
      [] i = 21 -> Rat(32808399, 10)
      [] i = 22 -> Rat(39370079, 100)
      [] i = 23 -> R(1093613)
      [] i = 24 -> R(62137119 * 1000)

(* UNIT_TABLE.index(units), 0-based *)
UnitIndex(units) == (CHOOSE i \in 1..Len(UNIT_TABLE) : UNIT_TABLE[i] = units) - 1

InUnitTable(units) == \E i \in 1..Len(UNIT_TABLE) : UNIT_TABLE[i] = units

(* conversion_factor = CONVERSION_FACTORS[UNIT_TABLE.index(units)+1] *)
ConversionFactor(units) == CONVERSION_FACTORS(UnitIndex(units) + 1)

NUM_SEGMENTS == 10

(***************************************************************************)
(* geometry_to_line.lines_to_points                                        *)
(*                                                                         *)
(* The state of the loop over given_lines is                               *)
(*   [points, point_index, num_segments, segment_length]:                  *)
(* num_segments and segment_length are the function's parameters, which    *)
(* the loop body reassigns.                                                *)
(***************************************************************************)
Point(x, y, z) == <<x, y, z>>

(* (1 if (start_point[0] - end_point[0]) > 0 else -1) *)
Direction(start_point, end_point) ==
    IF RLt(R(0), RSub(start_point[1], end_point[1])) THEN R(1) ELSE R(-1)

(* x_difference = (end_point[0] - start_point[0]) / num_segments *)
XDifference(start_point, end_point, num_segments) ==
    RDiv(RSub(end_point[1], start_point[1]), R(num_segments))

(* the point generated for one index of "for index in range(0,num_segments)" *)
GeneratedPoint(index, start_point, end_point, x_difference, slope, y_intercept) ==
    LET x == RAdd(start_point[1],
                  RMul(RMul(x_difference, R(index)),
                       Direction(start_point, end_point)))
        y == RAdd(RMul(x, slope), y_intercept)
    IN  Point(x, y, R(0))

(* range(0, num_segments+1) *)
RangeCountInclusive(num_segments) == IF num_segments + 1 > 0 THEN num_segments + 1 ELSE 0

(* range(0, num_segments) as the indices the loop visits, in order *)
RangeCount(num_segments) == IF num_segments > 0 THEN num_segments ELSE 0

RECURSIVE GeneratePoints(_, _, _, _, _, _, _, _)
GeneratePoints(index, count, start_point, end_point, x_difference, slope, y_intercept, st) ==
    IF index >= count THEN st
    ELSE GeneratePoints(index + 1, count, start_point, end_point, x_difference,
             slope, y_intercept,
             [st EXCEPT
                !.points = Append(@, Rec("POINT", st.point_index,
                               <<GeneratedPoint(index, start_point, end_point,
                                     x_difference, slope, y_intercept)>>)),
                !.point_index = @ + 1])

(* the body of "for line in given_lines" for one line *)
LineBody(line, st, units) ==
    LET start_point == line.values[1]
        end_point == line.values[2]
    IN
    IF ~InUnitTable(units) THEN Raise("Exception")
    ELSE IF ~IsRationalPoint(start_point) \/ ~IsRationalPoint(end_point) THEN Inexact
    ELSE
    LET byCount == st.num_segments # 0
        byLength == ~byCount /\ ~RIsZero(st.segment_length)
        num_segments == IF byCount \/ byLength THEN st.num_segments
                        ELSE NUM_SEGMENTS
        segment_length == IF byLength
                          THEN RMul(st.segment_length, ConversionFactor(units))
                          ELSE st.segment_length
    IN
    (* slope = (start.y - end.y) / (start.x - end.x) *)
    IF RIsZero(RSub(start_point[1], end_point[1])) THEN Raise("ZeroDivisionError")
    (* num_segments = (start.y - end.y) / segment_length is a float:       *)
    (* range(0, num_segments) raises TypeError                             *)
    ELSE IF byLength THEN Raise("TypeError")
    ELSE
    LET x_difference == XDifference(start_point, end_point, num_segments)
        slope == RDiv(RSub(start_point[2], end_point[2]),
                      RSub(start_point[1], end_point[1]))
        y_intercept == RSub(start_point[2], RMul(slope, start_point[1]))
    IN  Return(GeneratePoints(0, RangeCount(num_segments), start_point,
                   end_point, x_difference, slope, y_intercept,
                   [st EXCEPT !.num_segments = num_segments,
                              !.segment_length = segment_length]))

RECURSIVE LinesLoop(_, _, _, _)
RECURSIVE LinesNext(_, _, _, _)
LinesLoop(given_lines, i, st, units) ==
    IF i > Len(given_lines) THEN Return(st.points)
    ELSE LinesNext(given_lines, i, units, LineBody(given_lines[i], st, units))

LinesNext(given_lines, i, units, r) ==
    IF r.tag # "return" THEN r
    ELSE LinesLoop(given_lines, i + 1, r.val, units)

lines_to_points(given_lines, num_segments, segment_length, units) ==
    LinesLoop(given_lines, 1,
              [points |-> <<>>, point_index |-> 0,
               num_segments |-> num_segments,
               segment_length |-> segment_length],
              units)

(***************************************************************************)
(* math.cos / math.sin of an angle in degrees, math.sqrt, math.atan2 and   *)
(* math.pi, on the values where they are rational.                         *)
(***************************************************************************)
IsQuadrantal(angle) == angle.d = 1 /\ angle.n % 90 = 0

Quadrant(angle) == (angle.n \div 90) % 4

CosDeg(angle) ==
    CASE Quadrant(angle) = 0 -> R(1)
      [] Quadrant(angle) = 1 -> R(0)
      [] Quadrant(angle) = 2 -> R(-1)
      [] Quadrant(angle) = 3 -> R(0)

SinDeg(angle) ==
    CASE Quadrant(angle) = 0 -> R(0)
      [] Quadrant(angle) = 1 -> R(1)
      [] Quadrant(angle) = 2 -> R(0)
      [] Quadrant(angle) = 3 -> R(-1)

IsSquare(i) == \E k \in 0..i : k * k = i

ISqrt(i) == CHOOSE k \in 0..i : k * k = i

HasRationalSqrt(a) == a.n >= 0 /\ IsSquare(a.n) /\ IsSquare(a.d)

SqrtRat(a) == Rat(ISqrt(a.n), ISqrt(a.d))

(* math.degrees(math.atan2(y, x)) on the axes *)
IsAxis(y, x) == RIsZero(y) \/ RIsZero(x)

Atan2Deg(y, x) ==
    IF RIsZero(y) THEN (IF RLt(x, R(0)) THEN R(180) ELSE R(0))
    ELSE IF RLt(R(0), y) THEN R(90) ELSE R(-90)

(* math.pi, and the bounds between which the model requires a truncation   *)
(* that depends on it to be decided                                        *)
math_pi == Rat(355, 113)
PiLow == Rat(314, 100)
PiHigh == Rat(315, 100)

(***************************************************************************)
(* geometry_to_line.arc_to_lines                                           *)
(*                                                                         *)
(* The state of the loop over given_arcs is [lines, line_index,            *)
(* num_segments]; num_segments is the parameter, which the loop body       *)
(* reassigns.                                                              *)
(***************************************************************************)
(* segment_angle = (segment_length*conversion_factor/(radius*2*math.pi))*360 *)
SegmentAngleByLength(segment_length, conversion_factor, radius, pi) ==
    RMul(RDiv(RMul(segment_length, conversion_factor),
              RMul(RMul(radius, R(2)), pi)),
         R(360))

(* num_segments = int(degree/segment_angle) *)
SegmentsByLength(degree, segment_length, conversion_factor, radius, pi) ==
    RInt(RDiv(degree,
              SegmentAngleByLength(segment_length, conversion_factor, radius, pi)))

(* angle = start_angle + (segment_angle * index) *)
SampleAngle(start_angle, segment_angle, index) ==
    RAdd(start_angle, RMul(segment_angle, R(index)))

(* radius*math.cos(math.radians(angle))/conversion_factor + offset, and    *)
(* the same with math.sin                                                  *)
ArcCoordinate(f, radius, angle, conversion_factor, offset) ==
    IF IsRational(angle) /\ IsQuadrantal(angle)
    THEN RAdd(RDiv(RMul(radius, IF f = "cos" THEN CosDeg(angle) ELSE SinDeg(angle)),
                   conversion_factor),
              offset)
    ELSE Trig(offset, RDiv(radius, conversion_factor), f, angle)

(* points.append([x+center[0], y+center[1], center[2]]) *)
ArcPoint(center, radius, angle, conversion_factor) ==
    <<ArcCoordinate("cos", radius, angle, conversion_factor, center[1]),
      ArcCoordinate("sin", radius, angle, conversion_factor, center[2]),
      center[3]>>

(* conversion_factor * x *)
ScaledCoordinate(x, conversion_factor) ==
    IF IsRational(x) THEN RMul(conversion_factor, x)
    ELSE Trig(RMul(conversion_factor, x.a), RMul(conversion_factor, x.b), x.f, x.t)

(* tuple([conversion_factor * x for x in point]) *)
Scaled(point, conversion_factor) ==
    <<ScaledCoordinate(point[1], conversion_factor),
      ScaledCoordinate(point[2], conversion_factor),
      ScaledCoordinate(point[3], conversion_factor)>>

(* range(0, num_segments+1): number of sampled points *)
SampleCount(num_segments) == IF num_segments + 1 > 0 THEN num_segments + 1 ELSE 0

(* the lines "for index in range(0, num_segments)" appends *)
ChordLines(points, num_segments, line_index, conversion_factor) ==
    IF num_segments <= 0 THEN <<>>
    ELSE [i \in 1..num_segments |->
             Rec("LINE", line_index + i - 1,
                 <<Scaled(points[i], conversion_factor),
                   Scaled(points[i + 1], conversion_factor)>>)]

(* if end_angle - start_angle == 360: the closing line *)
ClosingLines(points, num_segments, degree, line_index, conversion_factor) ==
    IF degree = R(360)
    THEN <<Rec("LINE", line_index,
               <<Scaled(points[num_segments + 1], conversion_factor),
                 Scaled(points[1], conversion_factor)>>)>>
    ELSE <<>>

(* the two loops of the body and the closing line, for the resolved        *)
(* num_segments and the sampled points                                     *)
ArcEmit(st, degree, conversion_factor, num_segments, points, chords) ==
    Return([lines |-> st.lines \o chords
                      \o ClosingLines(points, num_segments, degree,
                                      st.line_index + Len(chords), conversion_factor),
            line_index |-> st.line_index + Len(chords)
                           + Len(ClosingLines(points, num_segments, degree,
                                              st.line_index + Len(chords),
                                              conversion_factor)),
            num_segments |-> num_segments])

ArcLines(st, degree, conversion_factor, num_segments, points) ==
    ArcEmit(st, degree, conversion_factor, num_segments, points,
            ChordLines(points, num_segments, st.line_index, conversion_factor))

(* "for index in range(0, num_segments+1)": the sampled points *)
ArcSample(center, radius, start_angle, degree, st, conversion_factor, num_segments, segment_angle) ==
    ArcLines(st, degree, conversion_factor, num_segments,
             [i \in 1..SampleCount(num_segments) |->
                 ArcPoint(center, radius,
                          SampleAngle(start_angle, segment_angle, i - 1),
                          conversion_factor)])

(* segment_angle*math.pi for the segment_angle computed from              *)
(* segment_length: (segment_length*conversion_factor/(radius*2))*360      *)
SegmentAnglePerPi(segment_length, conversion_factor, radius) ==
    RMul(RDiv(RMul(segment_length, conversion_factor), RMul(radius, R(2))), R(360))

(* angle = start_angle + (segment_angle * index) with that segment_angle:  *)
(* the angle start_angle + perpi/pi degrees, a rational only at index 0    *)
PiAngle(start_angle, perpi, index) ==
    IF index = 0 \/ RIsZero(perpi) THEN start_angle
    ELSE [deg |-> start_angle, perpi |-> RMul(perpi, R(index))]

(* the sampling with a segment_angle computed from math.pi *)
ArcSampleByLength(center, radius, start_angle, degree, st, conversion_factor, num_segments, perpi) ==
    ArcLines(st, degree, conversion_factor, num_segments,
             [i \in 1..SampleCount(num_segments) |->
                 ArcPoint(center, radius, PiAngle(start_angle, perpi, i - 1),
                          conversion_factor)])

(* if num_segments > 2 / elif segment_length > 0 / else *)
ArcResolve(center, radius, start_angle, degree, st, segment_length, conversion_factor) ==
    IF st.num_segments > 2
    THEN ArcSample(center, radius, start_angle, degree, st, conversion_factor,
                   st.num_segments, RDiv(degree, R(st.num_segments)))
    ELSE IF RLt(R(0), segment_length)
    THEN (* segment_length*conversion_factor/(radius*2*math.pi) with radius 0 *)
         IF RIsZero(radius) THEN Raise("ZeroDivisionError")
         ELSE IF SegmentsByLength(degree, segment_length, conversion_factor,
                                  radius, PiLow)
                 # SegmentsByLength(degree, segment_length, conversion_factor,
                                    radius, PiHigh)
         THEN Inexact
         ELSE ArcSampleByLength(center, radius, start_angle, degree, st, conversion_factor,
                        SegmentsByLength(degree, segment_length, conversion_factor,
                                         radius, math_pi),
                        SegmentAnglePerPi(segment_length, conversion_factor, radius))
    ELSE ArcSample(center, radius, start_angle, degree, st, conversion_factor,
                   NUM_SEGMENTS, RDiv(degree, R(NUM_SEGMENTS)))

(* the body of "for arc in given_arcs" for one arc *)
ArcBody(arc, st, segment_length, units) ==
    IF ~InUnitTable(units) THEN Raise("Exception")
    ELSE ArcResolve(arc.values[1], arc.values[2][1], arc.values[2][2],
                    RSub(arc.values[2][3], arc.values[2][2]), st, segment_length,
                    ConversionFactor(units))

RECURSIVE ArcsLoop(_, _, _, _, _)
RECURSIVE ArcsNext(_, _, _, _, _)
ArcsLoop(given_arcs, i, st, segment_length, units) ==
    IF i > Len(given_arcs) THEN Return(st.lines)
    ELSE ArcsNext(given_arcs, i, segment_length, units,
                  ArcBody(given_arcs[i], st, segment_length, units))

ArcsNext(given_arcs, i, segment_length, units, r) ==
    IF r.tag # "return" THEN r
    ELSE ArcsLoop(given_arcs, i + 1, r.val, segment_length, units)

arc_to_lines(given_arcs, num_segments, segment_length, units) ==
    ArcsLoop(given_arcs, 1,
             [lines |-> <<>>, line_index |-> 0, num_segments |-> num_segments],
             segment_length, units)

(***************************************************************************)
(* geometry_to_line.ellipse_to_arcs                                        *)
(*                                                                         *)
(* The state of the loop over given_ellipsis is [arcs, arc_index,          *)
(* num_segments, fit]: fit is <<>> while the locals cx, cy are unbound and *)
(* <<cx, cy>> once a circle fit has assigned them.                         *)
(***************************************************************************)
Sq(a) == RMul(a, a)

(* (minor*cos(theta))^2 + (major*sin(theta))^2 *)
Radicand(major_radius, minor_radius, theta) ==
    RAdd(Sq(RMul(minor_radius, CosDeg(theta))), Sq(RMul(major_radius, SinDeg(theta))))

(* points.append([x+center[0], y+center[1], center[2]]) *)
PolarPoint(center, radius, theta) ==
    <<RAdd(RMul(radius, CosDeg(theta)), center[1]),
      RAdd(RMul(radius, SinDeg(theta)), center[2]),
      center[3]>>

(* radius = major*minor / sqrt(...), then the point at theta *)
EllipsePoint(center, major_radius, minor_radius, theta) ==
    PolarPoint(center,
               RDiv(RMul(major_radius, minor_radius),
                    SqrtRat(Radicand(major_radius, minor_radius, theta))),
               theta)

(* segment_length/conversion_factor > circumfrance, both sides squared *)
LongerThanCircumference(segment_length, conversion_factor, major_radius, minor_radius) ==
    RLt(RMul(Sq(RMul(R(2), math_pi)),
             RDiv(RAdd(Sq(major_radius), Sq(minor_radius)), R(2))),
        Sq(RDiv(segment_length, conversion_factor)))

(* The circle fit through p1, p2, p3.  With n_i = p_ix^2 + p_iy^2,         *)
(* d12x = 2*p1x - 2*p2x, d12y = 2*p1y - 2*p2y, d13x = 2*p1x - 2*p3x and    *)
(* d3 = 2*p1y - 2*p3y:                                                     *)
(*   cx = ((n1 - n2) - (d12y*(n1 - n3))/d3) / (d12x - (d12y*d13x)/d3)      *)
(*   cy = ((n1 - n3)/d3) - (cx*(d13x/d3))                                  *)
SqNorm(p) == RAdd(Sq(p[1]), Sq(p[2]))

Twice(a, b) == RSub(RMul(R(2), a), RMul(R(2), b))

FitDen(d12x, d12y, d13x, d3) == RSub(d12x, RDiv(RMul(d12y, d13x), d3))

FitCx(n1, n2, n3, d12x, d12y, d13x, d3) ==
    RDiv(RSub(RSub(n1, n2), RDiv(RMul(d12y, RSub(n1, n3)), d3)),
         FitDen(d12x, d12y, d13x, d3))

FitCy(n1, n3, d13x, d3, cx) ==
    RSub(RDiv(RSub(n1, n3), d3), RMul(cx, RDiv(d13x, d3)))

FitCenter(n1, n3, d13x, d3, cx) == <<cx, FitCy(n1, n3, d13x, d3, cx)>>

(* the value of (cx, cy) after the try block: a ZeroDivisionError is       *)
(* caught and leaves them as they were (fit)                               *)
FitTry(fit, n1, n2, n3, d12x, d12y, d13x, d3) ==
    IF RIsZero(d3) THEN fit
    ELSE IF RIsZero(FitDen(d12x, d12y, d13x, d3)) THEN fit
    ELSE FitCenter(n1, n3, d13x, d3, FitCx(n1, n2, n3, d12x, d12y, d13x, d3))

FitOf(fit, p1, p2, p3) ==
    FitTry(fit, SqNorm(p1), SqNorm(p2), SqNorm(p3), Twice(p1[1], p2[1]),
           Twice(p1[2], p2[2]), Twice(p1[1], p3[1]), Twice(p1[2], p3[2]))

(* ('ARC:#', [(cx/f, cy/f, 0), (radius/f, start_angle, end_angle)]) *)
FittedArc(arc_index, cx, cy, radius, dx1, dy1, dx3, dy3, conversion_factor) ==
    Rec("ARC", arc_index,
        <<<<RDiv(cx, conversion_factor), RDiv(cy, conversion_factor), R(0)>>,
          <<RDiv(radius, conversion_factor), Atan2Deg(dy1, dx1), Atan2Deg(dy3, dx3)>>>>)

RECURSIVE FitLoop(_, _, _, _, _)
RECURSIVE FitRadius(_, _, _, _, _, _, _, _, _, _)
RECURSIVE FitArc(_, _, _, _, _, _, _, _)

(* "for index in range(0,num_segments)": one arc per triple of points *)
FitLoop(index, num_segments, points, conversion_factor, st) ==
    IF index >= num_segments THEN Return(st)
    ELSE FitArc(index, num_segments, points, conversion_factor, st,
                points[2 * index + 1],
                points[((2 * index + 2) % Len(points)) + 1],
                FitOf(st.fit, points[2 * index + 1], points[2 * index + 2],
                      points[((2 * index + 2) % Len(points)) + 1]))

FitArc(index, num_segments, points, conversion_factor, st, p1, p3, fit) ==
    (* radius = math.sqrt(math.pow(p1x-cx,2) + ...) with cx never assigned *)
    IF fit = <<>> THEN Raise("UnboundLocalError")
    ELSE FitRadius(index, num_segments, points, conversion_factor, st, fit,
                   RSub(p1[1], fit[1]), RSub(p1[2], fit[2]),
                   RSub(p3[1], fit[1]), RSub(p3[2], fit[2]))

FitRadius(index, num_segments, points, conversion_factor, st, fit, dx1, dy1, dx3, dy3) ==
    IF ~HasRationalSqrt(RAdd(Sq(dx1), Sq(dy1))) \/ ~IsAxis(dy1, dx1) \/ ~IsAxis(dy3, dx3)
    THEN Inexact
    ELSE FitLoop(index + 1, num_segments, points, conversion_factor,
                 [st EXCEPT
                    !.arcs = Append(@, FittedArc(st.arc_index, fit[1], fit[2],
                                        SqrtRat(RAdd(Sq(dx1), Sq(dy1))),
                                        dx1, dy1, dx3, dy3, conversion_factor)),
                    !.arc_index = @ + 1,
                    !.fit = fit])

(* "for index in range(0,2*num_segments)": the key points, then the fits *)
EllipseSample(center, major_radius, minor_radius, st, conversion_factor, num_segments, angle) ==
    IF \E index \in 0..(2 * num_segments - 1) :
           \/ ~IsQuadrantal(RMul(R(index), angle))
           \/ ~HasRationalSqrt(Radicand(major_radius, minor_radius,
                                        RMul(R(index), angle)))
    THEN Inexact
    (* major*minor / sqrt(0) *)
    ELSE IF \E index \in 0..(2 * num_segments - 1) :
                RIsZero(Radicand(major_radius, minor_radius, RMul(R(index), angle)))
    THEN Raise("ZeroDivisionError")
    ELSE FitLoop(0, num_segments,
                 [i \in 1..(2 * num_segments) |->
                     EllipsePoint(center, major_radius, minor_radius,
                                  RMul(R(i - 1), angle))],
                 conversion_factor,
                 [st EXCEPT !.num_segments = num_segments])

(* if num_segments / elif segment_length / else *)
EllipseResolve(center, major_radius, minor_radius, st, segment_length, conversion_factor) ==
    IF st.num_segments # 0
    THEN EllipseSample(center, major_radius, minor_radius, st, conversion_factor,
                       st.num_segments,
                       RDiv(RDiv(R(360), R(st.num_segments)), R(2)))
    ELSE IF ~RIsZero(segment_length)
    THEN (* warning(...); continue *)
         IF LongerThanCircumference(segment_length, conversion_factor,
                                    major_radius, minor_radius)
         THEN Return(st)
         (* num_segments is still 0: neither loop runs *)
         ELSE Return(st)
    ELSE EllipseSample(center, major_radius, minor_radius, st, conversion_factor,
                       NUM_SEGMENTS, RDiv(RDiv(R(360), R(NUM_SEGMENTS)), R(2)))

(* the body of "for ellipse in given_ellipsis" for one ellipse *)
EllipseBody(ellipse, st, segment_length, units) ==
    IF ~InUnitTable(units) THEN Raise("Exception")
    ELSE EllipseResolve(ellipse.values[1], ellipse.values[2][1],
                        RMul(ellipse.values[3][1], ellipse.values[2][1]),
                        st, segment_length, ConversionFactor(units))

RECURSIVE EllipsesLoop(_, _, _, _, _)
RECURSIVE EllipsesNext(_, _, _, _, _)
EllipsesLoop(given_ellipsis, i, st, segment_length, units) ==
    IF i > Len(given_ellipsis) THEN Return(st.arcs)
    ELSE EllipsesNext(given_ellipsis, i, segment_length, units,
                      EllipseBody(given_ellipsis[i], st, segment_length, units))

EllipsesNext(given_ellipsis, i, segment_length, units, r) ==
    IF r.tag # "return" THEN r
    ELSE EllipsesLoop(given_ellipsis, i + 1, r.val, segment_length, units)

ellipse_to_arcs(given_ellipsis, num_segments, segment_length, units) ==
    EllipsesLoop(given_ellipsis, 1,
                 [arcs |-> <<>>, arc_index |-> 0, num_segments |-> num_segments,
                  fit |-> <<>>],
                 segment_length, units)

(***************************************************************************)
(* geometry_to_line.convert_to                                             *)
(*                                                                         *)
(* frame holds the arguments of the active invocation of convert_to and    *)
(* its depth in the recursion.  The recursive calls pass three positional  *)
(* arguments only, so num_segments, min_length and units of an inner       *)
(* invocation are the defaults 0, 0 and 'um'.                              *)
(***************************************************************************)
(* the kind tested before the equality of the two kinds *)
BranchKindFirst(given_geometry_type, return_geometry_type) ==
    IF given_geometry_type = "LINE" THEN "LINE"
    ELSE IF given_geometry_type = "ARC" THEN "ARC"
    ELSE IF given_geometry_type = "ELLIPSE" THEN "ELLIPSE"
    ELSE IF given_geometry_type = return_geometry_type THEN "same"
    ELSE "none"

(* which branch of the if / elif chain an invocation takes *)
Branch(given_geometry_type, return_geometry_type) ==
    IF given_geometry_type = return_geometry_type THEN "same"
    ELSE IF given_geometry_type = "LINE" THEN "LINE"
    ELSE IF given_geometry_type = "ARC" THEN "ARC"
    ELSE IF given_geometry_type = "ELLIPSE" THEN "ELLIPSE"
    ELSE "none"

(* an arc's lines handed on as points *)
NextKindSkipsLine(given_geometry_type) ==
    CASE given_geometry_type = "LINE" -> "POINT"
      [] given_geometry_type = "ARC" -> "POINT"
      [] given_geometry_type = "ELLIPSE" -> "ARC"

(* the kind the recursive call of a branch is given *)
NextKind(given_geometry_type) ==
    CASE given_geometry_type = "LINE" -> "POINT"
      [] given_geometry_type = "ARC" -> "LINE"
      [] given_geometry_type = "ELLIPSE" -> "ARC"

StageName(given_geometry_type) ==
    CASE given_geometry_type = "LINE" -> "lines_to_points"
      [] given_geometry_type = "ARC" -> "arc_to_lines"
      [] given_geometry_type = "ELLIPSE" -> "ellipse_to_arcs"

(* the tessellation call that is the third argument of the recursive call *)
Stage(f) ==
    CASE f.given_geometry_type = "LINE" ->
            lines_to_points(f.given_geometry, f.num_segments, f.min_length, f.units)
      [] f.given_geometry_type = "ARC" ->
            arc_to_lines(f.given_geometry, f.num_segments, f.min_length, f.units)
      [] f.given_geometry_type = "ELLIPSE" ->
            ellipse_to_arcs(f.given_geometry, f.num_segments, f.min_length, f.units)

(* convert_to(NextKind, return_geometry_type, <stage result>) *)
InnerFrame(f, given_geometry) ==
    [given_geometry_type |-> NextKind(f.given_geometry_type),
     return_geometry_type |-> f.return_geometry_type,
     given_geometry |-> given_geometry,
     num_segments |-> 0,
     min_length |-> R(0),
     units |-> "um",
     depth |-> f.depth + 1]

(* every number the call computes is one the model represents *)
RECURSIVE Exact(_)
RECURSIVE ExactAfter(_, _)
Exact(f) ==
    IF Branch(f.given_geometry_type, f.return_geometry_type) \in {"same", "none"}
    THEN TRUE
    ELSE ExactAfter(f, Stage(f))

ExactAfter(f, r) ==
    /\ r.tag # "inexact"
    /\ r.tag = "return" => Exact(InnerFrame(f, r.val))

(* convert_to as the value its caller receives *)
RECURSIVE convert_to(_)
RECURSIVE ConvertNext(_, _)
convert_to(f) ==
    IF Branch(f.given_geometry_type, f.return_geometry_type) = "same"
    THEN Return(f.given_geometry)
    ELSE IF Branch(f.given_geometry_type, f.return_geometry_type) = "none"
    THEN ReturnNone
    ELSE ConvertNext(f, Stage(f))

ConvertNext(f, r) ==
    IF r.tag = "return" THEN convert_to(InnerFrame(f, r.val)) ELSE r

(***************************************************************************)
(* importer.import_dxf_file and importer.import_csv_file                   *)
(*                                                                         *)
(* A drawing is [units, entities]: the unit code of the header and the     *)
(* entities of the modelspace in order, each with the attributes the       *)
(* importer reads.  A csv file is the sequence of its rows, each with the  *)
(* scantype of its second column and the numbers of its other columns.     *)
(* allowedtypes is used for membership and emptiness only and is a set.    *)
(***************************************************************************)
(* tuple([conversion_factor * x for x in values]) *)
ScaleAll(values, conversion_factor) ==
    [i \in 1..Len(values) |-> RMul(conversion_factor, values[i])]

(* ('POINT:#', [(X,Y,Z)]) *)
PointRecord(entity, entity_index, conversion_factor) ==
    Rec("POINT", entity_index, <<ScaleAll(entity.location, conversion_factor)>>)

(* ('LINE:#', [START (X,Y,Z), END (X,Y,Z)]) *)
LineRecord(entity, entity_index, conversion_factor) ==
    Rec("LINE", entity_index,
        <<ScaleAll(entity.start, conversion_factor),
          ScaleAll(entity.end, conversion_factor)>>)

(* ('ARC:#', [CENTER, (RADIUS, START ANGLE, END ANGLE)]); a CIRCLE has the *)
(* angles 0.0 and 360.0                                                    *)
ArcRecord(entity, entity_index, conversion_factor) ==
    Rec("ARC", entity_index,
        <<ScaleAll(entity.center, conversion_factor),
          <<RMul(entity.radius, conversion_factor),
            IF entity.type = "CIRCLE" THEN R(0) ELSE entity.start_angle,
            IF entity.type = "CIRCLE" THEN R(360) ELSE entity.end_angle>>>>)

(* ('ELLIPSE:#', [CENTER, MAJOR AXIS ENDPOINT, (RATIO,)]) *)
EllipseRecord(entity, entity_index, conversion_factor) ==
    Rec("ELLIPSE", entity_index,
        <<ScaleAll(entity.center, conversion_factor),
          ScaleAll(entity.major_axis, conversion_factor),
          <<entity.ratio>>>>)

(* weights += (1.0,) for each control point when the entity has none *)
SplineWeights(entity) ==
    IF Len(entity.weights) = 0
    THEN [i \in 1..Len(entity.control_points) |-> R(1)]
    ELSE [i \in 1..Len(entity.control_points) |-> entity.weights[i]]

(* entity.CLOSED, the flag constant of the spline class *)
SPLINE_CLOSED == 1

(* ('SPLINE:#', [(DEGREE, CLOSED, #), CONTROL POINTS..., KNOTS, WEIGHTS]) *)
SplineRecord(entity, entity_index, conversion_factor) ==
    Rec("SPLINE", entity_index,
        <<<<R(entity.degree), R(SPLINE_CLOSED), R(Len(entity.control_points))>>>>
        \o [i \in 1..Len(entity.control_points) |->
                ScaleAll(entity.control_points[i], conversion_factor)]
        \o <<entity.knots>>
        \o <<SplineWeights(entity)>>)

(* (f*x, f*y, start width, end width, bulge) for each vertex *)
LwpolylinePoint(value, conversion_factor) ==
    <<RMul(conversion_factor, value[1]), RMul(conversion_factor, value[2]),
      value[3], value[4], value[5]>>

(* ('LWPOLYLINE:#', [VERTICES..., CLOSED]) *)
LwpolylineRecord(entity, entity_index, conversion_factor) ==
    Rec("LWPOLYLINE", entity_index,
        [i \in 1..Len(entity.lwpoints) |->
            LwpolylinePoint(entity.lwpoints[i], conversion_factor)]
        \o <<IF entity.closed THEN R(1) ELSE R(0)>>)

(* the entity types with a branch in import_dxf_file *)
DxfBranches == {"POINT", "LINE", "ARC", "CIRCLE", "ELLIPSE", "SPLINE", "LWPOLYLINE"}

(* the record a branch of import_dxf_file builds for its entity *)
DxfRecord(entity, entity_index, conversion_factor) ==
    CASE entity.type = "POINT" -> PointRecord(entity, entity_index, conversion_factor)
      [] entity.type = "LINE" -> LineRecord(entity, entity_index, conversion_factor)
      [] entity.type \in {"ARC", "CIRCLE"} ->
            ArcRecord(entity, entity_index, conversion_factor)
      [] entity.type = "ELLIPSE" -> EllipseRecord(entity, entity_index, conversion_factor)
      [] entity.type = "SPLINE" -> SplineRecord(entity, entity_index, conversion_factor)
      [] entity.type = "LWPOLYLINE" ->
            LwpolylineRecord(entity, entity_index, conversion_factor)

(* every type is allowed *)
IsAllowedAlways(name, allowedtypes) == TRUE

(* name in allowedtypes or not allowedtypes *)
IsAllowed(name, allowedtypes) == name \in allowedtypes \/ allowedtypes = {}

(* the condition after "elif convert and": 'POINT' in allowedtypes for a   *)
(* LINE, the truth value of get_hifi_geometry(name, allowedtypes) for the  *)
(* other types                                                             *)
HasTarget(name, allowedtypes) ==
    IF name = "LINE" THEN Return("POINT" \in allowedtypes)
    ELSE IF get_hifi_geometry(name, allowedtypes).tag = "return"
    THEN Return(get_hifi_geometry(name, allowedtypes).val # EmptyList)
    ELSE get_hifi_geometry(name, allowedtypes)

(* the arguments of convert_to(kind, get_hifi_geometry(name, allowedtypes), *)
(* [record], num_segments, segment_length, segment_units)                   *)
ImportFrame(name, record, p) ==
    [given_geometry_type |-> record.kind,
     return_geometry_type |-> get_hifi_geometry(name, p.allowedtypes).val,
     given_geometry |-> <<record>>,
     num_segments |-> p.num_segments,
     min_length |-> p.segment_length,
     units |-> p.segment_units,
     depth |-> 1]

(* for geometry in converted: geometry_list.append(geometry) *)
AppendConverted(geometry_list, converted) ==
    IF converted.tag = "return" THEN Return(geometry_list \o converted.val)
    (* iterating over None *)
    ELSE IF converted.tag = "none" THEN Raise("TypeError")
    ELSE converted

(* elif convert and <target>: ... *)
ConvertBranch(name, record, geometry_list, p, target) ==
    IF target.tag # "return" THEN target
    ELSE IF ~target.val THEN Return(geometry_list)
    ELSE AppendConverted(geometry_list, convert_to(ImportFrame(name, record, p)))

(* the branch of one entity or row: geometry_list after it, or the exception  *)
ImportBranch(name, record, geometry_list, p) ==
    IF name = "POINT"
    THEN Return(IF p.allowedtypes = {} \/ name \in p.allowedtypes
                THEN Append(geometry_list, record) ELSE geometry_list)
    ELSE IF IsAllowed(name, p.allowedtypes) THEN Return(Append(geometry_list, record))
    ELSE IF ~p.convert THEN Return(geometry_list)
    ELSE ConvertBranch(name, record, geometry_list, p, HasTarget(name, p.allowedtypes))

(* one pass of "for entity_index, entity in enumerate(entities)" *)
DxfEntity(entity, entity_index, conversion_factor, geometry_list, p) ==
    IF entity.type \in DxfBranches
    THEN ImportBranch(entity.type, DxfRecord(entity, entity_index, conversion_factor),
                      geometry_list, p)
    (* warning(f'UNKNOWN GEOMETRY: {name}') *)
    ELSE Return(geometry_list)

RECURSIVE DxfLoop(_, _, _, _, _)
RECURSIVE DxfNext(_, _, _, _, _)
DxfLoop(entities, i, conversion_factor, p, geometry_list) ==
    IF i > Len(entities) THEN Return(geometry_list)
    ELSE DxfNext(entities, i, conversion_factor, p,
                 DxfEntity(entities[i], i - 1, conversion_factor, geometry_list, p))

DxfNext(entities, i, conversion_factor, p, r) ==
    IF r.tag # "return" THEN r
    ELSE DxfLoop(entities, i + 1, conversion_factor, p, r.val)

(* p = [allowedtypes, convert, num_segments, segment_length, segment_units] *)
import_dxf_file(drawing, p) ==
    DxfLoop(drawing.entities, 1, CONVERSION_FACTORS(drawing.units), p, <<>>)

(* the rows with a branch in import_csv_file *)
CsvBranches == {"POINT", "LINE", "ARC", "ELLIPSE"}

(* the record a branch of import_csv_file builds for its row *)
CsvRecord(row, index, conversion_factor) ==
    CASE row.scantype = "POINT" ->
            Rec("POINT", index, <<ScaleAll(row.arg1, conversion_factor)>>)
      [] row.scantype = "LINE" ->
            Rec("LINE", index, <<ScaleAll(row.arg1, conversion_factor),
                                 ScaleAll(row.arg2, conversion_factor)>>)
      [] row.scantype = "ARC" ->
            Rec("ARC", index, <<ScaleAll(row.arg1, conversion_factor),
                                <<RMul(conversion_factor, row.arg2), row.arg3, row.arg4>>>>)
      [] row.scantype = "ELLIPSE" ->
            Rec("ELLIPSE", index,
                <<ScaleAll(row.arg1, conversion_factor),
                  <<RMul(row.arg2, conversion_factor), R(0), R(0)>>,
                  <<row.arg3>>>>)

(* one pass of "for index,row in enumerate(imported_csv)" *)
CsvRow(row, index, conversion_factor, geometry_list, p) ==
    IF row.scantype \in CsvBranches
    THEN ImportBranch(row.scantype, CsvRecord(row, index, conversion_factor),
                      geometry_list, p)
    ELSE Return(geometry_list)

RECURSIVE CsvLoop(_, _, _, _, _)
RECURSIVE CsvNext(_, _, _, _, _)
CsvLoop(rows, i, conversion_factor, p, geometry_list) ==
    IF i > Len(rows) THEN Return(geometry_list)
    ELSE CsvNext(rows, i, conversion_factor, p,
                 CsvRow(rows[i], i - 1, conversion_factor, geometry_list, p))

CsvNext(rows, i, conversion_factor, p, r) ==
    IF r.tag # "return" THEN r
    ELSE CsvLoop(rows, i + 1, conversion_factor, p, r.val)

(* unit_index = UNIT_TABLE.index(units), or that of 'um' on ValueError *)
CsvConversionFactor(units) ==
    IF InUnitTable(units) THEN ConversionFactor(units) ELSE ConversionFactor("um")

(* if header: next(imported_csv) *)
import_csv_file(rows, units, header, p) ==
    IF header /\ Len(rows) = 0 THEN Raise("StopIteration")
    ELSE CsvLoop(IF header THEN Tail(rows) ELSE rows, 1, CsvConversionFactor(units),
                 p, <<>>)

(***************************************************************************)
(* importer.export_dxf_file                                                *)
(*                                                                         *)
(* The state of the loop over scans is [entities, scans]: the entities     *)
(* added to the modelspace so far and the caller's records, whose payload  *)
(* lists the loop body can change.                                         *)
(***************************************************************************)
(* tuple(point/conversion_factor for point in values) *)
DivideAll(values, conversion_factor) ==
    [i \in 1..Len(values) |-> RDiv(values[i], conversion_factor)]

(* the entity one pass of the inner loop adds for a record that is not an  *)
(* LWPOLYLINE                                                              *)
ExportedEntity(kind, points, conversion_factor) ==
    CASE kind = "POINT" ->
            [type |-> "POINT", location |-> DivideAll(points[1], conversion_factor)]
      [] kind = "LINE" ->
            [type |-> "LINE", start |-> DivideAll(points[1], conversion_factor),
             end |-> DivideAll(points[2], conversion_factor)]
      [] kind = "ARC" ->
            IF points[2][2] = R(0) /\ points[2][3] = R(360)
            THEN [type |-> "CIRCLE", center |-> DivideAll(points[1], conversion_factor),
                  radius |-> RDiv(points[2][1], conversion_factor)]
            ELSE [type |-> "ARC", center |-> DivideAll(points[1], conversion_factor),
                  radius |-> RDiv(points[2][1], conversion_factor),
                  start_angle |-> points[2][2], end_angle |-> points[2][3]]
      [] kind = "ELLIPSE" ->
            [type |-> "ELLIPSE", center |-> DivideAll(points[1], conversion_factor),
             major_axis |-> DivideAll(points[2], conversion_factor),
             ratio |-> points[3][1]]
      [] kind = "SPLINE" ->
            [type |-> "SPLINE", degree |-> points[1][1].n,
             control_points |-> [i \in 1..points[1][3].n |->
                                    DivideAll(points[i + 1], conversion_factor)],
             knots |-> points[points[1][3].n + 2],
             weights |-> points[points[1][3].n + 3]]

(* bool(closed): a float is true when it is not 0, a tuple when it is not  *)
(* empty                                                                   *)
Truthy(v, isTuple) == IF isTuple THEN Len(v) > 0 ELSE ~RIsZero(v)

(* closed = points[-1]; del points[-1]; the polyline of the other elements *)
ExportedLwpolyline(points, conversion_factor, isTuple) ==
    [type |-> "LWPOLYLINE",
     lwpoints |-> [i \in 1..(Len(points) - 1) |->
                      DivideAll(points[i], conversion_factor)],
     closed |-> Truthy(points[Len(points)], isTuple)]

SupportedKinds == {"POINT", "LINE", "ARC", "ELLIPSE", "SPLINE", "LWPOLYLINE"}

(* one pass of "for values in entry" for the record at position i; the     *)
(* last element of an LWPOLYLINE payload is the closed flag in the pass    *)
(* that finds the payload as the caller passed it and a vertex afterwards  *)
ExportPass(st, i, conversion_factor, pass) ==
    IF st.scans[i].kind = "LWPOLYLINE"
    THEN (* points[-1] of an empty list *)
         IF Len(st.scans[i].values) = 0 THEN [st EXCEPT !.exc = "IndexError"]
         ELSE [st EXCEPT
                 !.entities = Append(@, ExportedLwpolyline(st.scans[i].values,
                                            conversion_factor, pass > 1)),
                 !.scans[i].values = SubSeq(@, 1, Len(@) - 1)]
    ELSE IF st.scans[i].kind \in SupportedKinds
    THEN [st EXCEPT !.entities =
             Append(@, ExportedEntity(st.scans[i].kind, st.scans[i].values,
                                      conversion_factor))]
    (* warning('UNKNOWN GEOMETRY: '+geometry_name) *)
    ELSE st

(* "for values in entry": an entry is the pair (name, payload), so the     *)
(* body runs twice for each entry                                          *)
EntryLength == 2

(* "for entry in scans: for values in entry:", until a pass raises *)
RECURSIVE ExportLoop(_, _, _, _)
ExportLoop(st, i, pass, conversion_factor) ==
    IF i > Len(st.scans) \/ st.exc # "none" THEN st
    ELSE IF pass < EntryLength
    THEN ExportLoop(ExportPass(st, i, conversion_factor, pass), i, pass + 1,
                    conversion_factor)
    ELSE ExportLoop(ExportPass(st, i, conversion_factor, pass), i + 1, 1,
                    conversion_factor)

(* filename.endswith('.dxf') *)
EndsWithDxf(filename) == filename \in {"out.dxf"}

(* what a call of export_dxf_file leaves: its outcome, the entities added  *)
(* to the drawing and the caller's records                                 *)
ExportOutcome(outcome, st) ==
    [outcome |-> outcome, entities |-> st.entities, scans |-> st.scans]

(* the check of the extension, after the loop *)
ExportFinish(filename, st) ==
    IF st.exc # "none" THEN ExportOutcome(Raise(st.exc), st)
    ELSE IF ~EndsWithDxf(filename) THEN ExportOutcome(Raise("Exception"), st)
    ELSE ExportOutcome(Return(TRUE), st)

ExportStart(scans) == [entities |-> <<>>, scans |-> scans, exc |-> "none"]

export_dxf_file(filename, scans, exportunits) ==
    IF ~InUnitTable(exportunits) THEN ExportOutcome(Raise("Exception"), ExportStart(scans))
    ELSE IF Len(scans) = 0 THEN ExportOutcome(Raise("Exception"), ExportStart(scans))
    ELSE ExportFinish(filename,
                      ExportLoop(ExportStart(scans), 1, 1, ConversionFactor(exportunits)))

(* dxf_drawing.units = UNIT_TABLE.index(exportunits); saveas(filename) *)
WrittenDrawing(exportunits, entities) ==
    [written |-> TRUE, units |-> UnitIndex(exportunits), entities |-> entities]

(***************************************************************************)
(* Inputs.                                                                 *)
(***************************************************************************)
P3(x, y, z) == <<R(x), R(y), R(z)>>

LineValues ==
    { <<P3(0, 0, 0), P3(4, 0, 0)>>,
      <<P3(4, 2, 1), P3(0, 0, 0)>>,
      <<P3(1, 1, 0), P3(3, 5, 2)>>,
      <<P3(0, 0, 0), P3(0, 3, 0)>> }

ArcValues ==
    { <<P3(0, 0, 0), <<R(1), R(0), R(270)>>>>,
      <<P3(1, 2, 0), <<R(2), R(0), R(360)>>>>,
      <<P3(0, 0, 0), <<R(1), R(90), R(90)>>>>,
      <<P3(0, 0, 0), <<R(2), R(270), R(0)>>>> }

EllipseValues ==
    { <<P3(10, 10, 0), P3(4, 0, 0), <<Rat(1, 2)>>>>,
      <<P3(10, 10, 0), P3(2, 0, 0), <<R(1)>>>> }

PointValues == { <<P3(1, 2, 3)>> }

(* SPLINE and LWPOLYLINE payloads are passed through and never read *)
OpaqueValues == { <<>> }

ValuesOf(kind) ==
    CASE kind = "POINT" -> PointValues
      [] kind = "LINE" -> LineValues
      [] kind = "ARC" -> ArcValues
      [] kind = "ELLIPSE" -> EllipseValues
      [] OTHER -> OpaqueValues

(* the lists of at most MaxBatch records of one kind, numbered in order *)
Batches(kind) ==
    UNION { { [i \in 1..k |-> Rec(kind, i - 1, v[i])] : v \in [1..k -> ValuesOf(kind)] }
            : k \in 0..MaxBatch }

Units == {"um", "mm", "xx"}

SegmentCounts == 0..MaxSeg

SegmentLengths == { R(l) : l \in 0..MaxLen }

(* the entities a drawing is made of, in the units of the drawing *)
DxfEntities ==
    { [type |-> "POINT", location |-> P3(1, 2, 3)],
      [type |-> "LINE", start |-> P3(0, 0, 0), end |-> P3(4, 0, 0)],
      [type |-> "ARC", center |-> P3(0, 0, 0), radius |-> R(1),
       start_angle |-> R(0), end_angle |-> R(270)],
      [type |-> "CIRCLE", center |-> P3(1, 2, 0), radius |-> R(2)],
      [type |-> "ELLIPSE", center |-> <<Rat(1, 100), Rat(1, 100), R(0)>>,
       major_axis |-> <<Rat(4, 1000), R(0), R(0)>>, ratio |-> Rat(1, 2)],
      [type |-> "SPLINE", degree |-> 1,
       control_points |-> <<P3(0, 0, 0), P3(1, 1, 0)>>,
       knots |-> <<R(0), R(0), R(1), R(1)>>, weights |-> <<>>],
      [type |-> "LWPOLYLINE",
       lwpoints |-> <<<<R(0), R(0), R(0), R(0), R(0)>>, <<R(1), R(0), R(0), R(0), R(0)>>>>,
       closed |-> TRUE],
      [type |-> "TEXT"] }

(* the unit codes of the drawings: 4 = Millimeters *)
FileUnits == {4}

Drawings ==
    UNION { { [written |-> TRUE, units |-> u, entities |-> e]
                : u \in FileUnits, e \in [1..k -> DxfEntities] }
            : k \in 0..MaxEntities }

(* the rows of a csv file after its header line *)
CsvRows ==
    { [scantype |-> "POINT", arg1 |-> P3(1, 2, 3)],
      [scantype |-> "LINE", arg1 |-> P3(0, 0, 0), arg2 |-> P3(4, 0, 0)],
      [scantype |-> "ARC", arg1 |-> P3(0, 0, 0), arg2 |-> R(1), arg3 |-> R(0),
       arg4 |-> R(270)],
      [scantype |-> "ELLIPSE", arg1 |-> <<Rat(1, 100), Rat(1, 100), R(0)>>,
       arg2 |-> Rat(4, 1000), arg3 |-> Rat(1, 2)],
      [scantype |-> "SPLINE"] }

HeaderRow == [scantype |-> "SCANTYPE"]

CsvFiles ==
    UNION { { <<HeaderRow>> \o rows : rows \in [1..k -> CsvRows] }
            : k \in 0..MaxEntities }

(* num_segments and segment_length of an import that converts *)
ImportModes == { <<0, R(0)>>, <<3, R(0)>> }

(* the parameters of an import with allowedtypes among the given kinds:    *)
(* allowedtypes, convert and, when convert is set, the mode of the         *)
(* tessellation                                                            *)
ImportParams(kinds) ==
    { [allowedtypes |-> a, convert |-> FALSE, num_segments |-> 0,
       segment_length |-> R(0), segment_units |-> "um"] : a \in SUBSET kinds }
    \cup
    { [allowedtypes |-> a, convert |-> TRUE, num_segments |-> m[1],
       segment_length |-> m[2], segment_units |-> "um"]
        : a \in SUBSET kinds, m \in ImportModes }

(* import_dxf_file(filename) *)
DefaultImport ==
    [allowedtypes |-> {}, convert |-> FALSE, num_segments |-> 0,
     segment_length |-> R(0), segment_units |-> "um"]

(* the payloads of the records handed to an export, in microns *)
ExportPayloads ==
    { <<"POINT", <<P3(1, 2, 3)>>>>,
      <<"LINE", <<P3(0, 0, 0), P3(4, 0, 0)>>>>,
      <<"ARC", <<P3(0, 0, 0), <<R(1), R(0), R(270)>>>>>>,
      <<"ARC", <<P3(1, 2, 0), <<R(2), R(0), R(360)>>>>>>,
      <<"ELLIPSE", <<P3(10, 10, 0), P3(4, 0, 0), <<Rat(1, 2)>>>>>>,
      <<"SPLINE", <<<<R(1), R(1), R(2)>>, P3(0, 0, 0), P3(1, 1, 0),
                    <<R(0), R(0), R(1), R(1)>>, <<R(1), R(1)>>>>>>,
      <<"LWPOLYLINE", <<<<R(0), R(0), R(0), R(0), R(0)>>,
                        <<R(1000), R(0), R(0), R(0), R(0)>>, R(1)>>>>,
      <<"LWPOLYLINE", <<R(0)>>>>,
      <<"TEXT", <<>>>> }

ExportScans ==
    UNION { { [i \in 1..k |-> Rec(v[i][1], i - 1, v[i][2])]
                : v \in [1..k -> ExportPayloads] }
            : k \in 0..MaxBatch }

ExportUnits == {"um", "cm", "nm", "xx"}

Filenames == {"out.dxf", "out"}

(***************************************************************************)
(* The state machine: one call of the API at a time.                       *)
(***************************************************************************)
NoCall == [fn |-> "none"]

NoFrame == [depth |-> 0]

(* no DXF file has been written *)
NoFile == [written |-> FALSE]

Init ==
    /\ pc = "idle"
    /\ call = NoCall
    /\ frame = NoFrame
    /\ stages = <<>>
    /\ result = NoResult
    /\ file = NoFile
    /\ records = <<>>

CallGetHifiGeometry ==
    /\ pc = "idle"
    /\ \E geometry \in Kinds \cup {"CIRCLE"}, allowedtypes \in SUBSET Kinds :
          /\ call' = [fn |-> "get_hifi_geometry", geometry |-> geometry,
                      allowedtypes |-> allowedtypes]
          /\ result' = get_hifi_geometry(geometry, allowedtypes)
    /\ pc' = "done"
    /\ UNCHANGED <<frame, stages, file, records>>

CallLinesToPoints ==
    /\ pc = "idle"
    /\ \E given_lines \in Batches("LINE"), num_segments \in SegmentCounts,
          segment_length \in SegmentLengths, units \in Units :
          /\ call' = [fn |-> "lines_to_points", given_lines |-> given_lines,
                      num_segments |-> num_segments,
                      segment_length |-> segment_length, units |-> units]
          /\ result' = lines_to_points(given_lines, num_segments, segment_length, units)
          /\ records' = given_lines
    /\ pc' = "done"
    /\ UNCHANGED <<frame, stages, file>>

CallConvertTo ==
    /\ pc = "idle"
    /\ \E given_geometry_type \in Kinds, return_geometry_type \in Kinds,
          num_segments \in SegmentCounts, min_length \in SegmentLengths,
          units \in Units :
          \E given_geometry \in Batches(given_geometry_type) :
             LET f == [given_geometry_type |-> given_geometry_type,
                       return_geometry_type |-> return_geometry_type,
                       given_geometry |-> given_geometry,
                       num_segments |-> num_segments,
                       min_length |-> min_length,
                       units |-> units,
                       depth |-> 1]
             IN  /\ Exact(f)
                 /\ call' = [fn |-> "convert_to",
                             given_geometry_type |-> given_geometry_type,
                             return_geometry_type |-> return_geometry_type,
                             given_geometry |-> given_geometry,
                             num_segments |-> num_segments,
                             min_length |-> min_length,
                             units |-> units]
                 /\ frame' = f
                 /\ records' = given_geometry
    /\ pc' = "convert"
    /\ UNCHANGED <<stages, result, file>>

CallArcToLines ==
    /\ pc = "idle"
    /\ \E given_arcs \in Batches("ARC"), num_segments \in SegmentCounts,
          segment_length \in SegmentLengths, units \in Units :
          /\ arc_to_lines(given_arcs, num_segments, segment_length, units).tag
                # "inexact"
          /\ call' = [fn |-> "arc_to_lines", given_arcs |-> given_arcs,
                      num_segments |-> num_segments,
                      segment_length |-> segment_length, units |-> units]
          /\ result' = arc_to_lines(given_arcs, num_segments, segment_length, units)
          /\ records' = given_arcs
    /\ pc' = "done"
    /\ UNCHANGED <<frame, stages, file>>

CallEllipseToArcs ==
    /\ pc = "idle"
    /\ \E given_ellipsis \in Batches("ELLIPSE"), num_segments \in SegmentCounts,
          segment_length \in SegmentLengths, units \in Units :
          /\ ellipse_to_arcs(given_ellipsis, num_segments, segment_length, units).tag
                # "inexact"
          /\ call' = [fn |-> "ellipse_to_arcs", given_ellipsis |-> given_ellipsis,
                      num_segments |-> num_segments,
                      segment_length |-> segment_length, units |-> units]
          /\ result' = ellipse_to_arcs(given_ellipsis, num_segments, segment_length,
                                       units)
          /\ records' = given_ellipsis
    /\ pc' = "done"
    /\ UNCHANGED <<frame, stages, file>>

(* the end of an import: the list of geometries or the exception *)
ImportWith(c, r) ==
    /\ r.tag # "inexact"
    /\ call' = c
    /\ result' = r
    /\ pc' = "done"
    /\ UNCHANGED <<frame, stages, file, records>>

(* import_dxf_file of a drawing made elsewhere *)
CallImportDxfFile ==
    /\ pc = "idle"
    /\ \E drawing \in Drawings, p \in ImportParams(Kinds) :
          ImportWith([fn |-> "import_dxf_file", drawing |-> drawing, p |-> p,
                      scans |-> <<>>, exportunits |-> "none"],
                     import_dxf_file(drawing, p))

CallImportCsvFile ==
    /\ pc = "idle"
    /\ \E rows \in CsvFiles, header \in BOOLEAN, p \in ImportParams(CsvBranches) :
          ImportWith([fn |-> "import_csv_file", rows |-> rows, units |-> "mm",
                      header |-> header, p |-> p],
                     import_csv_file(rows, "mm", header, p))

(* the end of an export: its outcome, the file saved when it returns True  *)
(* and the caller's records as the call leaves them                        *)
ExportWith(c, o) ==
    /\ call' = c
    /\ result' = o.outcome
    /\ records' = o.scans
    /\ file' = IF o.outcome = Return(TRUE)
               THEN WrittenDrawing(c.exportunits, o.entities)
               ELSE file
    /\ pc' = "done"
    /\ UNCHANGED <<frame, stages>>

CallExportDxfFile ==
    /\ pc = "idle"
    /\ \E filename \in Filenames, scans \in ExportScans, exportunits \in ExportUnits :
          ExportWith([fn |-> "export_dxf_file", filename |-> filename,
                      scans |-> scans, exportunits |-> exportunits],
                     export_dxf_file(filename, scans, exportunits))

(* import_dxf_file(filename) of the file an export has just written *)
ReimportDxfFile ==
    /\ pc = "done"
    /\ call.fn = "export_dxf_file"
    /\ result = Return(TRUE)
    /\ ImportWith([fn |-> "import_dxf_file", drawing |-> file, p |-> DefaultImport,
                   scans |-> call.scans, exportunits |-> call.exportunits],
                  import_dxf_file(file, DefaultImport))

(* if given_geometry_type == return_geometry_type: return given_geometry *)
ConvertSame ==
    /\ pc = "convert"
    /\ Branch(frame.given_geometry_type, frame.return_geometry_type) = "same"
    /\ result' = Return(frame.given_geometry)
    /\ pc' = "done"
    /\ UNCHANGED <<call, frame, stages, file, records>>

(* return convert_to(NextKind, return_geometry_type, stage(...)) *)
ConvertWith(kind, r) ==
    /\ stages' = Append(stages, StageName(kind))
    /\ IF r.tag = "return"
       THEN /\ frame' = InnerFrame(frame, r.val)
            /\ pc' = "convert"
            /\ UNCHANGED result
       ELSE /\ result' = r
            /\ pc' = "done"
            /\ UNCHANGED frame
    /\ UNCHANGED <<call, file, records>>

(* elif given_geometry_type == 'LINE' *)
ConvertLine ==
    /\ pc = "convert"
    /\ Branch(frame.given_geometry_type, frame.return_geometry_type) = "LINE"
    /\ ConvertWith("LINE", Stage(frame))

(* elif given_geometry_type == 'ARC' *)
ConvertArc ==
    /\ pc = "convert"
    /\ Branch(frame.given_geometry_type, frame.return_geometry_type) = "ARC"
    /\ ConvertWith("ARC", Stage(frame))

(* elif given_geometry_type == 'ELLIPSE' *)
ConvertEllipse ==
    /\ pc = "convert"
    /\ Branch(frame.given_geometry_type, frame.return_geometry_type) = "ELLIPSE"
    /\ ConvertWith("ELLIPSE", Stage(frame))

(* no branch is taken and the function calls itself again *)
ConvertFallThroughRecurses ==
    /\ pc = "convert"
    /\ Branch(frame.given_geometry_type, frame.return_geometry_type) = "none"
    /\ stages' = Append(stages, "convert_to")
    /\ frame' = [frame EXCEPT !.depth = @ + 1]
    /\ UNCHANGED <<pc, call, result, file, records>>

(* no branch is taken: the function ends and returns None *)
ConvertFallThrough ==
    /\ pc = "convert"
    /\ Branch(frame.given_geometry_type, frame.return_geometry_type) = "none"
    /\ result' = ReturnNone
    /\ pc' = "done"
    /\ UNCHANGED <<call, frame, stages, file, records>>

Next ==
    \/ CallGetHifiGeometry
    \/ CallLinesToPoints
    \/ CallArcToLines
    \/ CallEllipseToArcs
    \/ CallConvertTo
    \/ ConvertSame
    \/ ConvertLine
    \/ ConvertArc
    \/ ConvertEllipse
    \/ ConvertFallThrough
    \/ CallImportDxfFile
    \/ CallImportCsvFile
    \/ CallExportDxfFile
    \/ ReimportDxfFile

Spec == Init /\ [][Next]_vars

(***************************************************************************)
(* Properties.                                                             *)
(***************************************************************************)
RankedKinds == {"POINT", "LINE", "ARC", "ELLIPSE"}

(* the rank order POINT < LINE < ARC < ELLIPSE *)
Rank(kind) ==
    CASE kind = "POINT" -> 1
      [] kind = "LINE" -> 2
      [] kind = "ARC" -> 3
      [] kind = "ELLIPSE" -> 4

AllowedBelow(source, allowed) ==
    { k \in allowed \cap RankedKinds : Rank(k) < Rank(source) }

HighestBelow(source, allowed) ==
    IF AllowedBelow(source, allowed) = {} THEN EmptyList
    ELSE CHOOSE k \in AllowedBelow(source, allowed) :
             \A j \in AllowedBelow(source, allowed) : Rank(j) <= Rank(k)

HifiDone == pc = "done" /\ call.fn = "get_hifi_geometry"

(* C1: for a source kind in {POINT, LINE, ARC, ELLIPSE} and any allowed    *)
(* set, get_hifi_geometry returns the highest-ranked allowed kind strictly *)
(* below the source, and the empty result exactly when there is none.      *)
C1_HighestAllowedBelow ==
    (HifiDone /\ call.geometry \in RankedKinds)
        => result = Return(HighestBelow(call.geometry, call.allowedtypes))

C1_Witness ==
    /\ HifiDone
    /\ call.geometry = "ARC"
    /\ call.allowedtypes = {"LINE", "POINT"}
    /\ result = Return("LINE")

(* C2: for SPLINE, get_hifi_geometry returns LINE if LINE is allowed, else *)
(* POINT if POINT is allowed, and otherwise nothing: never ARC or another  *)
(* kind.                                                                   *)
C2_SplineLineOrPoint ==
    (HifiDone /\ call.geometry = "SPLINE")
        => result = Return(IF "LINE" \in call.allowedtypes THEN "LINE"
                           ELSE IF "POINT" \in call.allowedtypes THEN "POINT"
                           ELSE EmptyList)

(* C3: for LWPOLYLINE, get_hifi_geometry returns ARC if ARC and LINE are   *)
(* allowed, LINE if LINE is allowed and ARC is not, otherwise POINT if     *)
(* POINT is allowed; the result is always ARC, LINE, POINT or nothing.     *)
C3_PolylineArcLineOrPoint ==
    (HifiDone /\ call.geometry = "LWPOLYLINE")
        => /\ ("ARC" \in call.allowedtypes /\ "LINE" \in call.allowedtypes)
                 => result = Return("ARC")
           /\ ("ARC" \notin call.allowedtypes /\ "LINE" \in call.allowedtypes)
                 => result = Return("LINE")
           /\ ("LINE" \notin call.allowedtypes /\ "POINT" \in call.allowedtypes)
                 => result = Return("POINT")
           /\ result \in { Return("ARC"), Return("LINE"), Return("POINT"),
                           Return(EmptyList) }

ConvertCall == call.fn = "convert_to"

ConvertDone == pc = "done" /\ ConvertCall

(* C4: convert_to with equal source and target kind returns the given      *)
(* records unchanged, whatever num_segments, min_length and units are, and *)
(* runs no tessellation stage.                                             *)
C4_SameKindUnchanged ==
    (ConvertDone /\ call.given_geometry_type = call.return_geometry_type)
        => /\ result = Return(call.given_geometry)
           /\ stages = <<>>

C4_Witness ==
    /\ ConvertDone
    /\ call.given_geometry_type = "LINE"
    /\ call.return_geometry_type = "LINE"
    /\ Len(call.given_geometry) = 2
    /\ call.num_segments = 3
    /\ call.units = "mm"
    /\ result = Return(call.given_geometry)

(* the stages of the chain ELLIPSE -> ARC -> LINE -> POINT from source     *)
(* down to target, in order                                                *)
StageOfRank(r) ==
    CASE r = 4 -> "ellipse_to_arcs"
      [] r = 3 -> "arc_to_lines"
      [] r = 2 -> "lines_to_points"

ChainStages(source, target) ==
    [i \in 1..(Rank(source) - Rank(target)) |-> StageOfRank(Rank(source) - i + 1)]

IsPrefix(s, t) == Len(s) <= Len(t) /\ \A i \in 1..Len(s) : s[i] = t[i]

DownTheChain ==
    /\ ConvertCall
    /\ call.given_geometry_type \in {"ELLIPSE", "ARC", "LINE"}
    /\ call.return_geometry_type \in RankedKinds
    /\ Rank(call.return_geometry_type) < Rank(call.given_geometry_type)

NoPath(source, target) ==
    /\ source # target
    /\ \/ source \notin {"ELLIPSE", "ARC", "LINE"}
       \/ target \notin RankedKinds
       \/ Rank(target) > Rank(source)

(* C6: when no adjacency path leads from the source kind to the target     *)
(* kind, convert_to reports ConversionImpossible as an error to its        *)
(* caller, and returns no value.                                           *)
C6_ConversionImpossible ==
    (ConvertDone /\ NoPath(call.given_geometry_type, call.return_geometry_type))
        => result = Raise("ConversionImpossible")

LinesDone == pc = "done" /\ call.fn = "lines_to_points"

NonVertical(line) == line.values[1][1] # line.values[2][1]

(* a call with num_segments = N > 0, a recognised unit and no vertical line *)
ByCount ==
    /\ LinesDone
    /\ call.num_segments > 0
    /\ InUnitTable(call.units)
    /\ \A j \in 1..Len(call.given_lines) : NonVertical(call.given_lines[j])

(* the i-th point (i = 0..N-1) generated for the j-th line of the call *)
PointOf(j, i) == result.val[(j - 1) * call.num_segments + i + 1].values[1]

(* C7: lines_to_points with num_segments = N > 0 returns exactly N POINT   *)
(* records for each non-vertical line; the first is the line's start with  *)
(* z = 0, every z is 0 and consecutive x-coordinates differ by a constant. *)
C7_CountStartAndStep ==
    ByCount
        => /\ result.tag = "return"
           /\ Len(result.val) = call.num_segments * Len(call.given_lines)
           /\ \A k \in 1..Len(result.val) : result.val[k].kind = "POINT"
           /\ \A j \in 1..Len(call.given_lines) :
                 /\ PointOf(j, 0) = <<call.given_lines[j].values[1][1],
                                      call.given_lines[j].values[1][2], R(0)>>
                 /\ \A i \in 0..(call.num_segments - 1) : PointOf(j, i)[3] = R(0)
                 /\ \A i \in 1..(call.num_segments - 1) :
                       RSub(PointOf(j, i)[1], PointOf(j, i - 1)[1])
                           = RSub(PointOf(j, 1)[1], PointOf(j, 0)[1])

C7_Witness ==
    /\ ByCount
    /\ call.num_segments = 3
    /\ Len(call.given_lines) = 2
    /\ call.given_lines[1].values[1][3] # R(0)
    /\ result.tag = "return"
    /\ Len(result.val) = 6

RMin(a, b) == IF RLt(a, b) THEN a ELSE b

RMax(a, b) == IF RLt(a, b) THEN b ELSE a

RAbs(a) == IF RLt(a, R(0)) THEN RNeg(a) ELSE a

(* C8: with num_segments = N > 0 every point generated for a non-vertical  *)
(* line has its x-coordinate between start.x and end.x, and the points     *)
(* progress from the start towards the end.                                *)
C8_PointsBetweenEnds ==
    (ByCount /\ result.tag = "return")
        => \A j \in 1..Len(call.given_lines) :
              LET sx == call.given_lines[j].values[1][1]
                  ex == call.given_lines[j].values[2][1]
              IN  \A i \in 0..(call.num_segments - 1) :
                     /\ RLe(RMin(sx, ex), PointOf(j, i)[1])
                     /\ RLe(PointOf(j, i)[1], RMax(sx, ex))
                     /\ i > 0 => RLt(RAbs(RSub(ex, PointOf(j, i)[1])),
                                     RAbs(RSub(ex, PointOf(j, i - 1)[1])))

(* C9: with num_segments = N the i-th point of a line lies at              *)
(* start + i*(end - start)/(N - 1): the first point is the start and the   *)
(* last point is the end.                                                  *)
C9_EndToEndSpacing ==
    (ByCount /\ call.num_segments >= 2 /\ result.tag = "return")
        => \A j \in 1..Len(call.given_lines) :
              LET s == call.given_lines[j].values[1]
                  e == call.given_lines[j].values[2]
              IN  \A i \in 0..(call.num_segments - 1) :
                     /\ PointOf(j, i)[1]
                          = RAdd(s[1], RDiv(RMul(R(i), RSub(e[1], s[1])),
                                            R(call.num_segments - 1)))
                     /\ PointOf(j, i)[2]
                          = RAdd(s[2], RDiv(RMul(R(i), RSub(e[2], s[2])),
                                            R(call.num_segments - 1)))

(* C10: with num_segments = 0 and segment_length = L > 0 in 'um',          *)
(* lines_to_points completes without error and the i-th point of a line    *)
(* lies at distance i*L from the line's start.                             *)
C10_SpacedByLength ==
    (/\ LinesDone
     /\ call.num_segments = 0
     /\ RLt(R(0), call.segment_length)
     /\ call.units = "um"
     /\ Len(call.given_lines) = 1
     /\ NonVertical(call.given_lines[1]))
        => /\ result.tag = "return"
           /\ \A k \in 1..Len(result.val) :
                 RAdd(Sq(RSub(result.val[k].values[1][1],
                              call.given_lines[1].values[1][1])),
                      Sq(RSub(result.val[k].values[1][2],
                              call.given_lines[1].values[1][2])))
                     = Sq(RMul(R(k - 1), call.segment_length))

ArcsDone == pc = "done" /\ call.fn = "arc_to_lines"

FullCircle(arc) == RSub(arc.values[2][3], arc.values[2][2]) = R(360)

(* C11: arc_to_lines with num_segments = N > 0 uses N directly, for N = 1  *)
(* and N = 2 too: it returns N lines for an arc that does not span 360     *)
(* degrees and N + 1 lines (N chords and a closing line) for one that does.*)
C11_SegmentsUsedDirectly ==
    (ArcsDone /\ call.num_segments > 0 /\ InUnitTable(call.units))
        => /\ result.tag = "return"
           /\ Len(result.val)
                = call.num_segments * Len(call.given_arcs)
                  + Cardinality({ j \in 1..Len(call.given_arcs) :
                                     FullCircle(call.given_arcs[j]) })
           /\ \A k \in 1..Len(result.val) : result.val[k].kind = "LINE"

(* the point of the arc at an angle, in microns *)
OnArc(arc, angle) ==
    <<ArcCoordinate("cos", arc.values[2][1], angle, R(1), arc.values[1][1]),
      ArcCoordinate("sin", arc.values[2][1], angle, R(1), arc.values[1][2]),
      arc.values[1][3]>>

(* a point at distance radius from the centre of the arc *)
AtRadius(arc, p) ==
    IF IsRational(p[1]) /\ IsRational(p[2])
    THEN RAdd(Sq(RSub(p[1], arc.values[1][1])), Sq(RSub(p[2], arc.values[1][2])))
            = Sq(arc.values[2][1])
    ELSE /\ ~IsRational(p[1]) /\ ~IsRational(p[2])
         /\ p[1].f = "cos" /\ p[2].f = "sin" /\ p[1].t = p[2].t
         /\ p[1].a = arc.values[1][1] /\ p[2].a = arc.values[1][2]
         /\ p[1].b = arc.values[2][1] /\ p[2].b = arc.values[2][1]

(* C12: for one arc converted with num_segments = N in 'um', the lines     *)
(* form a continuous path: each line ends where the next starts, the first *)
(* starts at the arc's point at start_angle, the N-th ends at the arc's    *)
(* point at end_angle, and every end of a line is at distance radius from  *)
(* the centre.                                                             *)
C12_ContinuousPath ==
    (/\ ArcsDone
     /\ call.num_segments > 0
     /\ call.units = "um"
     /\ Len(call.given_arcs) = 1
     /\ result.tag = "return")
        => /\ Len(result.val) >= call.num_segments
           /\ \A i \in 1..(Len(result.val) - 1) :
                 result.val[i].values[2] = result.val[i + 1].values[1]
           /\ result.val[1].values[1]
                = OnArc(call.given_arcs[1], call.given_arcs[1].values[2][2])
           /\ result.val[call.num_segments].values[2]
                = OnArc(call.given_arcs[1], call.given_arcs[1].values[2][3])
           /\ \A i \in 1..Len(result.val) :
                 /\ AtRadius(call.given_arcs[1], result.val[i].values[1])
                 /\ AtRadius(call.given_arcs[1], result.val[i].values[2])

EllipsesDone == pc = "done" /\ call.fn = "ellipse_to_arcs"

(* 0 < ratio <= 1 *)
ValidEllipse(ellipse) ==
    /\ RLt(R(0), ellipse.values[3][1])
    /\ RLe(ellipse.values[3][1], R(1))

(* C13: ellipse_to_arcs with num_segments = N > 0 returns exactly N ARC     *)
(* records for each valid ellipse, for every N >= 1; for ratio = 1 every   *)
(* fitted radius equals the major radius.                                  *)
C13_ArcsPerEllipse ==
    (/\ EllipsesDone
     /\ call.num_segments > 0
     /\ InUnitTable(call.units)
     /\ \A j \in 1..Len(call.given_ellipsis) : ValidEllipse(call.given_ellipsis[j]))
        => /\ result.tag = "return"
           /\ Len(result.val) = call.num_segments * Len(call.given_ellipsis)
           /\ \A k \in 1..Len(result.val) : result.val[k].kind = "ARC"
           /\ \A j \in 1..Len(call.given_ellipsis) :
                 call.given_ellipsis[j].values[3][1] = R(1)
                    => \A i \in 1..call.num_segments :
                          result.val[(j - 1) * call.num_segments + i].values[2][1]
                             = call.given_ellipsis[j].values[2][1]

(* the key points sampled for an ellipse with num_segments = N *)
KeyPoints(ellipse, N) ==
    [i \in 1..(2 * N) |->
        EllipsePoint(ellipse.values[1], ellipse.values[2][1],
                     RMul(ellipse.values[3][1], ellipse.values[2][1]),
                     RMul(R(i - 1), RDiv(RDiv(R(360), R(N)), R(2))))]

(* the circle fit of the triple starting at 2*index divides by zero *)
DividesByZero(points, index) ==
    FitOf(<<>>, points[2 * index + 1], points[2 * index + 2],
          points[((2 * index + 2) % Len(points)) + 1]) = <<>>

(* the triples of an ellipse whose fit does not divide by zero *)
FittedTriples(ellipse, N) ==
    { index \in 0..(N - 1) : ~DividesByZero(KeyPoints(ellipse, N), index) }

RECURSIVE FittedCount(_, _, _)
FittedCount(given_ellipsis, j, N) ==
    IF j > Len(given_ellipsis) THEN 0
    ELSE Cardinality(FittedTriples(given_ellipsis[j], N))
         + FittedCount(given_ellipsis, j + 1, N)

(* C14: a triple whose circle fit divides by zero is skipped: the call     *)
(* does not raise, no ARC is returned for that triple, and the arcs of the *)
(* other triples of the batch are returned.                                *)
C14_DegenerateTripleSkipped ==
    (/\ EllipsesDone
     /\ call.num_segments > 0
     /\ InUnitTable(call.units)
     /\ \E j \in 1..Len(call.given_ellipsis) :
           FittedTriples(call.given_ellipsis[j], call.num_segments)
              # 0..(call.num_segments - 1))
        => /\ result.tag = "return"
           /\ Len(result.val)
                = FittedCount(call.given_ellipsis, 1, call.num_segments)

(* C15: lines_to_points on a batch with a vertical line does not raise:    *)
(* the vertical line is skipped and the points of every non-vertical line  *)
(* of the batch are returned.                                              *)
C15_VerticalLineSkipped ==
    (/\ LinesDone
     /\ call.num_segments > 0
     /\ InUnitTable(call.units)
     /\ \E j \in 1..Len(call.given_lines) : ~NonVertical(call.given_lines[j]))
        => /\ result.tag = "return"
           /\ Len(result.val)
                = call.num_segments
                  * Cardinality({ j \in 1..Len(call.given_lines) :
                                     NonVertical(call.given_lines[j]) })

ImportDone == pc = "done" /\ call.fn \in {"import_dxf_file", "import_csv_file"}

(* the entities of the drawing, or the rows after the header line, that    *)
(* the call reads                                                          *)
ItemsRead ==
    IF call.fn = "import_dxf_file" THEN call.drawing.entities
    ELSE IF call.header THEN Tail(call.rows) ELSE call.rows

(* the item at position i is of a supported type *)
Supported(i) ==
    IF call.fn = "import_dxf_file" THEN ItemsRead[i].type \in DxfBranches
    ELSE ItemsRead[i].scantype \in CsvBranches

(* the record of the supported item at position i, as its own kind *)
OwnRecord(i) ==
    IF call.fn = "import_dxf_file"
    THEN DxfRecord(ItemsRead[i], i - 1, CONVERSION_FACTORS(call.drawing.units))
    ELSE CsvRecord(ItemsRead[i], i - 1, CsvConversionFactor(call.units))

RECURSIVE OwnRecords(_)
OwnRecords(i) ==
    IF i > Len(ItemsRead) THEN <<>>
    ELSE (IF Supported(i) THEN <<OwnRecord(i)>> ELSE <<>>) \o OwnRecords(i + 1)

(* C16: an import with an empty allowed list returns every supported       *)
(* entity as its own kind, unconverted; with a non-empty allowed list      *)
(* every returned record has an allowed kind; with convert = False every   *)
(* returned record is the own record of an entity, so an entity of a       *)
(* disallowed kind contributes nothing.                                    *)
C16_AllowedKindsOnly ==
    (ImportDone /\ result.tag = "return")
        => /\ call.p.allowedtypes = {} => result.val = OwnRecords(1)
           /\ call.p.allowedtypes # {}
                 => \A k \in 1..Len(result.val) :
                       result.val[k].kind \in call.p.allowedtypes
           /\ ~call.p.convert
                 => \A k \in 1..Len(result.val) :
                       \E i \in 1..Len(ItemsRead) :
                          /\ Supported(i)
                          /\ result.val[k] = OwnRecord(i)
                          /\ \/ call.p.allowedtypes = {}
                             \/ OwnRecord(i).kind \in call.p.allowedtypes

C16_Witness ==
    /\ ImportDone
    /\ call.fn = "import_dxf_file"
    /\ call.p.convert
    /\ call.p.allowedtypes = {"LINE"}
    /\ call.p.num_segments = 3
    /\ Len(call.drawing.entities) = 2
    /\ call.drawing.entities[1].type = "ARC"
    /\ call.drawing.entities[2].type = "LINE"
    /\ result.tag = "return"
    /\ Len(result.val) = 4

(* the drawing with every CIRCLE replaced by the ARC from 0 to 360 degrees *)
(* with the same centre and radius                                         *)
CirclesAsArcs(drawing) ==
    [drawing EXCEPT !.entities =
        [i \in 1..Len(@) |->
            IF @[i].type = "CIRCLE"
            THEN [type |-> "ARC", center |-> @[i].center, radius |-> @[i].radius,
                  start_angle |-> R(0), end_angle |-> R(360)]
            ELSE @[i]]]

(* C17: a CIRCLE entity is imported as the ARC from 0 to 360 degrees and   *)
(* gets the allow / convert decision of an ARC entity: the import returns  *)
(* what it returns for the drawing with that ARC in place of the CIRCLE,   *)
(* and does not raise where that import does not.                          *)
C17_CircleAsArc ==
    (/\ pc = "done"
     /\ call.fn = "import_dxf_file"
     /\ \E i \in 1..Len(call.drawing.entities) :
           call.drawing.entities[i].type = "CIRCLE")
        => result = import_dxf_file(CirclesAsArcs(call.drawing), call.p)

(* C18: the names 'KIND:id' of the records one import returns are pairwise *)
(* distinct, also when entities are converted.                             *)
C18_DistinctNames ==
    (ImportDone /\ result.tag = "return")
        => \A i, j \in 1..Len(result.val) :
              (i # j) => \/ result.val[i].kind # result.val[j].kind
                         \/ result.val[i].id # result.val[j].id

(* the kinds whose payload is made of coordinates and angles *)
CoordinateKinds == {"POINT", "LINE", "ARC", "ELLIPSE"}

(* C19: importing the file that export_dxf_file(records, exportunits = u)  *)
(* wrote returns the coordinates that were exported: every returned record *)
(* has the payload of an exported record of its kind, and every exported   *)
(* record is returned.                                                     *)
C19_UnitRoundTrip ==
    (/\ pc = "done"
     /\ call.fn = "import_dxf_file"
     /\ call.exportunits # "none"
     /\ result.tag = "return")
        => /\ \A k \in 1..Len(result.val) :
                 result.val[k].kind \in CoordinateKinds
                    => \E i \in 1..Len(call.scans) :
                          /\ call.scans[i].kind = result.val[k].kind
                          /\ call.scans[i].values = result.val[k].values
           /\ \A i \in 1..Len(call.scans) :
                 call.scans[i].kind \in CoordinateKinds
                    => \E k \in 1..Len(result.val) :
                          /\ call.scans[i].kind = result.val[k].kind
                          /\ call.scans[i].values = result.val[k].values

(* the list of records a call was given *)
Passed ==
    CASE call.fn = "lines_to_points" -> call.given_lines
      [] call.fn = "arc_to_lines" -> call.given_arcs
      [] call.fn = "ellipse_to_arcs" -> call.given_ellipsis
      [] call.fn = "convert_to" -> call.given_geometry
      [] call.fn = "export_dxf_file" -> call.scans

(* C20: no operation changes the records passed to it: after a call of a   *)
(* tessellation function, of convert_to or of an export, every record of   *)
(* the caller, payload included, is what it was before the call.           *)
C20_InputsNotMutated ==
    (/\ pc = "done"
     /\ call.fn \in {"lines_to_points", "arc_to_lines", "ellipse_to_arcs",
                     "convert_to", "export_dxf_file"})
        => records = Passed

(* a call of one of the three tessellation functions is over *)
TessellationDone ==
    pc = "done" /\ call.fn \in {"lines_to_points", "arc_to_lines", "ellipse_to_arcs"}

(* the tessellation function of the call, applied to a batch with the      *)
(* given parameters                                                        *)
Tessellate(batch, num_segments, segment_length, units) ==
    CASE call.fn = "lines_to_points" ->
            lines_to_points(batch, num_segments, segment_length, units)
      [] call.fn = "arc_to_lines" ->
            arc_to_lines(batch, num_segments, segment_length, units)
      [] call.fn = "ellipse_to_arcs" ->
            ellipse_to_arcs(batch, num_segments, segment_length, units)

(* the payloads of a list of records, without the names *)
Payloads(recs) == [k \in 1..Len(recs) |-> recs[k].values]

(* the j-th record of the call tessellated alone with the call's parameters *)
Alone(j) ==
    Tessellate(<<Passed[j]>>, call.num_segments, call.segment_length, call.units)

(* the payloads of the records from the j-th on, each tessellated alone *)
RECURSIVE AlonePayloads(_)
AlonePayloads(j) ==
    IF j > Len(Passed) THEN <<>>
    ELSE Payloads(Alone(j).val) \o AlonePayloads(j + 1)

(* C21: a tessellation call has no dependency between the records of its   *)
(* batch: when the call returns, every record tessellated alone with the   *)
(* same parameters returns too, and the payloads of the batch output are   *)
(* the concatenation of the payloads of the outputs for the single records.*)
C21_BatchIndependence ==
    (TessellationDone /\ result.tag = "return")
        => /\ \A j \in 1..Len(Passed) : Alone(j).tag = "return"
           /\ Payloads(result.val) = AlonePayloads(1)

(* the drawing of the call holds SPLINE and LWPOLYLINE entities only, at   *)
(* least one, and the import allows LINE only and converts                 *)
CurvesToLines ==
    /\ pc = "done"
    /\ call.fn = "import_dxf_file"
    /\ call.p.convert
    /\ call.p.allowedtypes = {"LINE"}
    /\ Len(call.drawing.entities) > 0
    /\ \A i \in 1..Len(call.drawing.entities) :
          call.drawing.entities[i].type \in {"SPLINE", "LWPOLYLINE"}

(* x and y of the k-th vertex of a polyline, in microns; the vertex after  *)
(* the last one is the first                                               *)
VertexXY(entity, k, conversion_factor) ==
    <<RMul(conversion_factor, entity.lwpoints[((k - 1) % Len(entity.lwpoints)) + 1][1]),
      RMul(conversion_factor, entity.lwpoints[((k - 1) % Len(entity.lwpoints)) + 1][2])>>

(* the returned records are the lines joining the consecutive vertices of  *)
(* the closed polyline, the last one back to the first vertex              *)
JoinsVertices(entity, conversion_factor) ==
    /\ Len(result.val) = Len(entity.lwpoints)
    /\ \A k \in 1..Len(result.val) :
          /\ SubSeq(result.val[k].values[1], 1, 2) = VertexXY(entity, k, conversion_factor)
          /\ SubSeq(result.val[k].values[2], 1, 2)
                = VertexXY(entity, k + 1, conversion_factor)

(* C22: an import of SPLINE and LWPOLYLINE entities with allowed kinds     *)
(* ['LINE'] and convert = True returns, and returns LINE records only; for *)
(* a drawing made of one closed LWPOLYLINE these are the lines joining its *)
(* consecutive vertices.                                                   *)
C22_CurvesBecomeLines ==
    CurvesToLines
        => /\ result.tag = "return"
           /\ \A k \in 1..Len(result.val) : result.val[k].kind = "LINE"
           /\ (/\ Len(call.drawing.entities) = 1
               /\ call.drawing.entities[1].type = "LWPOLYLINE"
               /\ call.drawing.entities[1].closed)
                 => JoinsVertices(call.drawing.entities[1],
                                  CONVERSION_FACTORS(call.drawing.units))

(* C23: with num_segments > 0 the records a tessellation function returns  *)
(* do not depend on the units parameter: for every recognised unit the     *)
(* call gives what it gives with units = 'um', whatever the centre is.     *)
C23_UnitsDoNotMatter ==
    (TessellationDone /\ call.num_segments > 0 /\ InUnitTable(call.units))
        => result = Tessellate(Passed, call.num_segments, call.segment_length, "um")

(* one step of a convert_to call: the branch its invocation takes *)
ConvertStep ==
    \/ ConvertSame
    \/ ConvertLine
    \/ ConvertArc
    \/ ConvertEllipse
    \/ ConvertFallThrough

(* no tessellation function runs twice in one call *)
EachStageOnce ==
    \A i, j \in 1..Len(stages) : (i # j) => stages[i] # stages[j]

(* the invocation at the top of the recursion takes a branch, and the      *)
(* tessellation function of that branch has run its loops to an outcome    *)
CanStep ==
    /\ pc = "convert"
    /\ \/ Branch(frame.given_geometry_type, frame.return_geometry_type)
             \in {"same", "none"}
       \/ Stage(frame).tag \in {"return", "raise"}

Triple(points, index) ==
    <<points[2 * index + 1], points[2 * index + 2],
      points[((2 * index + 2) % Len(points)) + 1]>>

(* pairwise distinct in x, y and not on one line *)
ProperTriple(t) ==
    /\ SubSeq(t[1], 1, 2) # SubSeq(t[2], 1, 2)
    /\ SubSeq(t[1], 1, 2) # SubSeq(t[3], 1, 2)
    /\ SubSeq(t[2], 1, 2) # SubSeq(t[3], 1, 2)
    /\ RSub(RMul(RSub(t[2][1], t[1][1]), RSub(t[3][2], t[1][2])),
            RMul(RSub(t[2][2], t[1][2]), RSub(t[3][1], t[1][1]))) # R(0)

(* the squared distance from the centre c to the point p *)
SqDistance(c, p) == RAdd(Sq(RSub(p[1], c[1])), Sq(RSub(p[2], c[2])))

(* the fit of the triple succeeds and gives a centre at one distance from  *)
(* its three points                                                        *)
FitsCircumcenter(t) ==
    /\ FitOf(<<>>, t[1], t[2], t[3]) # <<>>
    /\ SqDistance(FitOf(<<>>, t[1], t[2], t[3]), t[1])
          = SqDistance(FitOf(<<>>, t[1], t[2], t[3]), t[2])
    /\ SqDistance(FitOf(<<>>, t[1], t[2], t[3]), t[1])
          = SqDistance(FitOf(<<>>, t[1], t[2], t[3]), t[3])

(* C25: the three-point circle fit of ellipse_to_arcs succeeds for every   *)
(* triple of pairwise distinct points that are not on one line, and its    *)
(* centre is equidistant from the three points; equal y of the first and   *)
(* the third point alone does not make it fail.                            *)
C25_CircleFitOfProperTriples ==
    (EllipsesDone /\ call.num_segments > 0 /\ InUnitTable(call.units))
        => \A j \in 1..Len(call.given_ellipsis) :
              \A index \in 0..(call.num_segments - 1) :
                 ProperTriple(Triple(KeyPoints(call.given_ellipsis[j],
                                               call.num_segments), index))
                    => FitsCircumcenter(Triple(KeyPoints(call.given_ellipsis[j],
                                                         call.num_segments), index))

(* segment_length in microns is at most the approximate circumference of   *)
(* the ellipse                                                             *)
FitsCircumference(ellipse, segment_length, units) ==
    ~LongerThanCircumference(RMul(segment_length, ConversionFactor(units)), R(1),
                             ellipse.values[2][1],
                             RMul(ellipse.values[3][1], ellipse.values[2][1]))

(* C26: ellipse_to_arcs with num_segments = 0 and segment_length = L > 0   *)
(* returns at least one ARC when the batch holds an ellipse whose          *)
(* approximate circumference is at least L in microns.                     *)
C26_ArcsByLength ==
    (/\ EllipsesDone
     /\ call.num_segments = 0
     /\ RLt(R(0), call.segment_length)
     /\ InUnitTable(call.units)
     /\ \E j \in 1..Len(call.given_ellipsis) :
           FitsCircumference(call.given_ellipsis[j], call.segment_length, call.units))
        => /\ result.tag = "return"
           /\ Len(result.val) >= 1

(* the single-stage tessellations of a conversion from the kind source,    *)
(* composed down to the kind target, each with the same parameters         *)
RECURSIVE Composed(_, _, _, _, _, _)
Composed(source, target, batch, num_segments, min_length, units) ==
    IF source = target THEN Return(batch)
    ELSE IF Stage([given_geometry_type |-> source, given_geometry |-> batch,
                   num_segments |-> num_segments, min_length |-> min_length,
                   units |-> units]).tag # "return"
    THEN Stage([given_geometry_type |-> source, given_geometry |-> batch,
                num_segments |-> num_segments, min_length |-> min_length,
                units |-> units])
    ELSE Composed(NextKind(source), target,
                  Stage([given_geometry_type |-> source, given_geometry |-> batch,
                         num_segments |-> num_segments, min_length |-> min_length,
                         units |-> units]).val,
                  num_segments, min_length, units)

(* a conversion over two or three stages *)
MultiStage ==
    /\ ConvertDone
    /\ <<call.given_geometry_type, call.return_geometry_type>>
          \in {<<"ELLIPSE", "LINE">>, <<"ELLIPSE", "POINT">>, <<"ARC", "POINT">>}

(* C27: a conversion over several stages applies the caller's num_segments,*)
(* min_length and units at every stage: its result is that of the          *)
(* single-stage tessellations composed, each called with those parameters. *)
C27_ParametersAtEveryStage ==
    (MultiStage /\ result.tag = "return")
        => \/ Composed(call.given_geometry_type, call.return_geometry_type,
                       call.given_geometry, call.num_segments, call.min_length,
                       call.units).tag = "inexact"
           \/ result = Composed(call.given_geometry_type, call.return_geometry_type,
                                call.given_geometry, call.num_segments,
                                call.min_length, call.units)

(* C28: arc_to_lines returns no LINE whose start point equals its end      *)
(* point, for arcs of positive radius in every parameter mode, the closing *)
(* line of a 360-degree arc and a segment_length longer than the arc       *)
(* included.                                                               *)
C28_NoZeroLengthLine ==
    (/\ ArcsDone
     /\ result.tag = "return"
     /\ \A j \in 1..Len(call.given_arcs) :
           RLt(R(0), call.given_arcs[j].values[2][1]))
        => \A k \in 1..Len(result.val) :
              result.val[k].values[1] # result.val[k].values[2]

(* the lines the call returns are a chain: each starts where the one       *)
(* before it ends                                                          *)
IsChain ==
    \A k \in 1..(Len(result.val) - 1) :
       result.val[k].values[2] = result.val[k + 1].values[1]

(* the point of the arc at the angle, in microns *)
PointAt(arc, angle) ==
    ArcPoint(arc.values[1], arc.values[2][1], angle, R(1))

(* C29: arc_to_lines with num_segments = 0 and segment_length = L > 0 on   *)
(* one arc returns a chain of lines that covers the arc: it starts at the  *)
(* point of the arc at start_angle and ends at its point at end_angle,     *)
(* also when the length of the arc is no multiple of L or end_angle is     *)
(* less than start_angle.                                                  *)
C29_ChainCoversArc ==
    (/\ ArcsDone
     /\ call.num_segments = 0
     /\ RLt(R(0), call.segment_length)
     /\ call.units = "um"
     /\ Len(call.given_arcs) = 1
     /\ RLt(R(0), call.given_arcs[1].values[2][1])
     /\ call.given_arcs[1].values[2][2] # call.given_arcs[1].values[2][3])
        => /\ result.tag = "return"
           /\ Len(result.val) >= 1
           /\ IsChain
           /\ result.val[1].values[1]
                 = PointAt(call.given_arcs[1], call.given_arcs[1].values[2][2])
           /\ result.val[Len(result.val) - (IF FullCircle(call.given_arcs[1])
                                             THEN 1 ELSE 0)].values[2]
                 = PointAt(call.given_arcs[1], call.given_arcs[1].values[2][3])

(* the records of the call that have a supported kind, in list order *)
IsSupportedRecord(r) == r.kind \in SupportedKinds

SupportedScans == SelectSeq(call.scans, IsSupportedRecord)

(* the type of the DXF entity that stands for a record: an ARC from 0 to   *)
(* 360 degrees is written as a CIRCLE                                      *)
EntityType(r) ==
    IF r.kind = "ARC" /\ r.values[2][2] = R(0) /\ r.values[2][3] = R(360)
    THEN "CIRCLE" ELSE r.kind

(* C30: an export that succeeds adds exactly one entity to the drawing for *)
(* each record of a supported kind, in list order: n supported records     *)
(* give a drawing of n entities.                                           *)
C30_OneEntityPerRecord ==
    (pc = "done" /\ call.fn = "export_dxf_file" /\ result = Return(TRUE))
        => /\ Len(file.entities) = Len(SupportedScans)
           /\ \A k \in 1..Len(SupportedScans) :
                 file.entities[k].type = EntityType(SupportedScans[k])

====
